---- MODULE Spec2Model ----
(***************************************************************************)
(* A model of the PQ-tree library (pqnode.h, pqnode.cc, pqtree.cc).        *)
(*                                                                         *)
(* The heap of PQNode objects is a sequence of records; a pointer is an    *)
(* index into it and NULL is 0.  `new PQNode` appends a record, `delete`   *)
(* replaces the record by Freed.  Between calls the heap is renumbered in  *)
(* depth-first order (Canon), since pointer values are observable only     *)
(* through equality and through the iteration order of std::set<PQNode*>,  *)
(* which is modelled as an arbitrary order chosen at each iteration.       *)
(***************************************************************************)
EXTENDS Integers, Sequences, FiniteSets

\* Size of the ground set U = 1..TreeSize the tree is built over.
TreeSize == 4

\* Longest log of reductions (reductions_) under SpecReduce.
MaxReductions == 3

\* Longest log of reductions under SpecDeep, and longest log that ReduceAll
\* and SafeReduceAll may lead to.
MaxDeep == 4

\* Longest list handed to ReduceAll and SafeReduceAll.
MaxList == 3

NULL == 0

\* A pointer to a node that is no longer part of the tree (freed, or dropped
\* from the heap when the heap is renumbered).
Dangling == -1

U == 1..TreeSize

\* An integer that is not in the ground set.
Unknown == TreeSize + 1

----------------------------------------------------------------------------
(* PQNode *)

\* The record a deleted node leaves behind: reading any field of it but
\* `alive` is an evaluation error, so a use after free cannot go unnoticed.
Freed == [alive |-> FALSE]

\* Appended to the heap by a failed assert(): the process aborts.
AssertFailed == [alive |-> FALSE, assert |-> "failed"]

\* Appended to the heap by a store past the end of immediate_siblings_[2].
OutOfBounds == [alive |-> FALSE, store |-> "out of bounds"]

\* Appended to the heap when a member of a deleted node is read or written
\* through a pointer that was left to it.
UseAfterFree == [alive |-> FALSE, use |-> "after free"]

Aborted(h) == \E i \in DOMAIN h : h[i] = AssertFailed

UsedAfterFree(h) == \E i \in DOMAIN h : h[i] = UseAfterFree

\* Whether the pointer p refers to a node that has been deleted.
Destroyed(h, p) == p = Dangling \/ (p \in DOMAIN h /\ ~h[p].alive)

\* The heap once the process has gone on after a use after free.
Survived(h) == [i \in DOMAIN h |-> IF h[i] = UseAfterFree THEN Freed ELSE h[i]]

Corrupted(h) == \E i \in DOMAIN h : h[i] = OutOfBounds

\* Bind([x \in {e} |-> body]) is body with x standing for the value of e:
\* the value is computed once, where it is bound.
Bind(f) == f[CHOOSE x \in DOMAIN f : TRUE]

\* PQNode::PQNode(): the non-leaf constructor.  type_ is set by the caller
\* right after; pseudochild_ is left uninitialized by the constructor.  The
\* two flags take the values "true", "false" and "uninit".
NewNode(type) ==
  [alive |-> TRUE, type_ |-> type, leaf_value |-> 0, parent_ |-> NULL,
   circular_link_ |-> << >>, endmost_children_ |-> <<NULL, NULL>>,
   pseudo_neighbors_ |-> <<NULL, NULL>>,
   immediate_siblings_ |-> <<NULL, NULL>>,
   pseudonode_ |-> "false", pseudochild_ |-> "uninit",
   full_children_ |-> {}, partial_children_ |-> {},
   label_ |-> "empty", mark_ |-> "unmarked",
   pertinent_child_count |-> 0, pertinent_leaf_count |-> 0]

\* PQNode::PQNode(int value): the leaf constructor, which leaves pseudonode_
\* and pseudochild_ uninitialized.
NewLeaf(value) ==
  [NewNode("leaf") EXCEPT !.leaf_value = value, !.pseudonode_ = "uninit"]

\* list<PQNode*>::remove(x)
ListRemove(s, x) == SelectSeq(s, LAMBDA y : y # x)

\* All the sequences that enumerate the set S once: the orders in which a
\* std::set<PQNode*> holding S can be iterated.
RECURSIVE Orders(_)
Orders(S) ==
  IF S = {} THEN { << >> }
  ELSE UNION { { <<x>> \o o : o \in Orders(S \ {x}) } : x \in S }

SeqToSet(s) == { s[i] : i \in 1..Len(s) }

\* PQNode::ChildCount
ChildCount(h, n) == Len(h[n].circular_link_)

\* PQNode::ImmediateSiblingCount
ImmediateSiblingCount(h, n) ==
  IF h[n].immediate_siblings_[1] = NULL THEN 0
  ELSE IF h[n].immediate_siblings_[2] = NULL THEN 1 ELSE 2

\* The siblings the loop `for (i = 0; i < 2 && immediate_siblings_[i]; ++i)`
\* visits, in order.
SiblingsOf(h, n) ==
  SubSeq(h[n].immediate_siblings_, 1, ImmediateSiblingCount(h, n))

\* PQNode::QNextChild
QNextChild(h, n, last) ==
  IF h[n].immediate_siblings_[1] = last
  THEN h[n].immediate_siblings_[2]
  ELSE IF last = NULL /\ ImmediateSiblingCount(h, n) = 2
       THEN h[n].immediate_siblings_[2]
       ELSE h[n].immediate_siblings_[1]

\* The walk `last = NULL; current = endmost_children_[0]; while (current) ...
\* next = current->QNextChild(last)` of FindLeaves, FindFrontier, Reset,
\* Print and Copy: the children it visits, in order.  A walk that visits more
\* nodes than the heap holds is in a cycle and never ends; it is cut there
\* with NULL appended, which no terminating walk contains.
RECURSIVE QWalk(_, _, _, _)
QWalk(h, current, last, acc) ==
  IF current = NULL THEN acc
  ELSE IF Len(acc) > Len(h) THEN Append(acc, NULL)
  ELSE QWalk(h, QNextChild(h, current, last), current, Append(acc, current))

QChildren(h, n) == QWalk(h, h[n].endmost_children_[1], NULL, << >>)

\* The children a depth-first walk (FindLeaves, FindFrontier, Reset, Print)
\* recurses into.
Children(h, n) ==
  IF h[n].type_ = "pnode" THEN h[n].circular_link_
  ELSE IF h[n].type_ = "qnode" THEN QChildren(h, n)
  ELSE << >>

\* PQNode::CircularChildWithLabel
CircularChildWithLabel(h, n, label) ==
  LET hits == SelectSeq(h[n].circular_link_, LAMBDA c : h[c].label_ = label)
  IN IF hits = << >> THEN NULL ELSE hits[1]

\* PQNode::EndmostChildWithLabel
EndmostChildWithLabel(h, n, label) ==
  LET e == h[n].endmost_children_
  IN IF e[1] # NULL /\ h[e[1]].label_ = label THEN e[1]
     ELSE IF e[2] # NULL /\ h[e[2]].label_ = label THEN e[2]
     ELSE NULL

\* PQNode::ImmediateSiblingWithLabel
ImmediateSiblingWithLabel(h, n, label) ==
  LET hits == SelectSeq(SiblingsOf(h, n), LAMBDA c : h[c].label_ = label)
  IN IF hits = << >> THEN NULL ELSE hits[1]

\* PQNode::AddImmediateSibling, with its assert(null_idx < 2).
AddImmediateSibling(h, n, sibling) ==
  LET idx == ImmediateSiblingCount(h, n)
  IN IF idx < 2
     THEN [h EXCEPT ![n].immediate_siblings_[idx + 1] = sibling]
     ELSE Append(h, AssertFailed)

\* PQNode::RemoveImmediateSibling
RemoveImmediateSibling(h, n, sibling) ==
  LET s == h[n].immediate_siblings_
  IN IF s[1] = sibling
     THEN [h EXCEPT ![n].immediate_siblings_ = <<s[2], NULL>>]
     ELSE IF s[2] = sibling
     THEN [h EXCEPT ![n].immediate_siblings_ = <<s[1], NULL>>]
     ELSE Append(h, AssertFailed)

\* PQNode::ClearImmediateSiblings
ClearImmediateSiblings(h, n) ==
  [h EXCEPT ![n].immediate_siblings_ = <<NULL, NULL>>]

\* ReplaceEndmostChild that replaces old_child at the first end only.
ReplaceEndmostChild_FirstOnly(h, n, old_child, new_child) ==
  IF h[n].endmost_children_[1] = old_child
  THEN [h EXCEPT ![n].endmost_children_[1] = new_child]
  ELSE h

\* PQNode::ReplaceEndmostChild
ReplaceEndmostChild(h, n, old_child, new_child) ==
  IF h[n].endmost_children_[1] = old_child
  THEN [h EXCEPT ![n].endmost_children_[1] = new_child]
  ELSE IF h[n].endmost_children_[2] = old_child
  THEN [h EXCEPT ![n].endmost_children_[2] = new_child]
  ELSE h

\* PQNode::ReplaceImmediateSibling: every slot of this node holding old_child
\* is overwritten, then this node is stored in new_child's first free slot
\* (slot index 2 is past the array when new_child already has two siblings).
ReplaceImmediateSibling(h, n, old_child, new_child) ==
  Bind([cnt \in {ImmediateSiblingCount(h, n)} |->
  Bind([s \in {h[n].immediate_siblings_} |->
  Bind([s1 \in {<< IF 1 <= cnt /\ s[1] = old_child THEN new_child ELSE s[1],
                   IF 2 <= cnt /\ s[2] = old_child THEN new_child
                   ELSE s[2] >>} |->
  Bind([h1 \in {[h EXCEPT ![n].immediate_siblings_ = s1]} |->
  Bind([k \in {ImmediateSiblingCount(h1, new_child)} |->
    IF k < 2
    THEN [h1 EXCEPT ![new_child].immediate_siblings_[k + 1] = n]
    ELSE Append(h1, OutOfBounds)])])])])])

\* PQNode::ForgetChildren
ForgetChildren(h, n) == [h EXCEPT ![n].endmost_children_ = <<NULL, NULL>>]

\* PQNode::ReplaceCircularLink
ReplaceCircularLink(h, n, old_child, new_child) ==
  [h EXCEPT ![n].circular_link_ = Append(ListRemove(@, old_child), new_child)]

\* delete of a node whose child pointers were cleared first, so that the
\* destructor frees nothing else.
Delete(h, n) == [h EXCEPT ![n] = Freed]

\* PQNode::FindFrontier
RECURSIVE FindFrontier(_, _)
FindFrontier(h, n) ==
  IF h[n].type_ = "leaf" THEN << h[n].leaf_value >>
  ELSE Bind([kids \in {Children(h, n)} |->
         LET F[i \in 0..Len(kids)] ==
               IF i = 0 THEN << >> ELSE F[i - 1] \o FindFrontier(h, kids[i])
         IN F[Len(kids)]])

\* sprintf(value_str, "%d", leaf_value) for a value >= 0: its decimal digits.
RECURSIVE Decimal(_)
Decimal(v) ==
  LET d == <<"0", "1", "2", "3", "4", "5", "6", "7", "8", "9">>[(v % 10) + 1]
  IN IF v < 10 THEN <<d>> ELSE Append(Decimal(v \div 10), d)

\* PQNode::Print: the characters appended to *out.
RECURSIVE PrintNode(_, _)
PrintNode(h, n) ==
  IF h[n].type_ = "leaf" THEN Decimal(h[n].leaf_value)
  ELSE Bind([kids \in {Children(h, n)} |->
         LET P[i \in 0..Len(kids)] ==
               IF i = 0 THEN << >>
               ELSE P[i - 1] \o PrintNode(h, kids[i])
                             \o (IF i < Len(kids) THEN <<" ">> ELSE << >>)
         IN IF h[n].type_ = "pnode" THEN <<"(">> \o P[Len(kids)] \o <<")">>
            ELSE <<"[">> \o P[Len(kids)] \o <<"]">>])

\* PQNode::FindLeaves: the entries it stores into the map, as a function on
\* the leaf values found.
RECURSIVE FoundLeaves(_, _)
FoundLeaves(h, n) ==
  IF h[n].type_ = "leaf" THEN { <<h[n].leaf_value, n>> }
  ELSE UNION { FoundLeaves(h, c) : c \in SeqToSet(Children(h, n)) }

\* leaf_address_.clear(); root_->FindLeaves(leaf_address_)
FindLeaves(h, n) ==
  Bind([found \in {FoundLeaves(h, n)} |->
    [v \in { p[1] : p \in found } |->
       (CHOOSE p \in found : p[1] = v)[2]]])

\* A reset of the node alone, without the walk over its children.
Reset_NodeOnly(h, n) ==
  [h EXCEPT ![n].full_children_ = {},
            ![n].partial_children_ = {},
            ![n].label_ = "empty",
            ![n].mark_ = "unmarked",
            ![n].pertinent_child_count = 0,
            ![n].pertinent_leaf_count = 0,
            ![n].pseudochild_ = "false",
            ![n].pseudonode_ = "false"]

\* PQNode::Reset
RECURSIVE Reset(_, _)
Reset(h, n) ==
  Bind([kids \in {Children(h, n)} |->
    LET R[i \in 0..Len(kids)] ==
          IF i = 0 THEN h
          ELSE Bind([h1 \in {R[i - 1]} |-> Reset(h1, kids[i])])
    IN [R[Len(kids)] EXCEPT ![n].full_children_ = {},
                            ![n].partial_children_ = {},
                            ![n].label_ = "empty",
                            ![n].mark_ = "unmarked",
                            ![n].pertinent_child_count = 0,
                            ![n].pertinent_leaf_count = 0,
                            ![n].pseudochild_ = "false",
                            ![n].pseudonode_ = "false"]])

\* PQNode::PQNode(const PQNode&), PQNode::Copy and PQNode::CopyAsChild: a
\* deep copy of node n of heap src, allocated at the end of heap dst with
\* parent_ set to `parent`.  The result is the new heap and the copy's place.
\* full_children_, partial_children_ and pseudo_neighbors_ are not copied;
\* the sibling links are rebuilt while the Q-children are walked.  With a
\* single Q-child, endmost_children_[1] is assigned an uninitialized local.
RECURSIVE CopyNode(_, _, _, _)
CopyNode(src, n, dst, parent) ==
  Bind([id \in {Len(dst) + 1} |->
  Bind([me \in {[NewNode(src[n].type_) EXCEPT
                   !.leaf_value = src[n].leaf_value,
                   !.pertinent_leaf_count = src[n].pertinent_leaf_count,
                   !.pertinent_child_count = src[n].pertinent_child_count,
                   !.mark_ = src[n].mark_,
                   !.label_ = src[n].label_,
                   !.pseudonode_ = src[n].pseudonode_,
                   !.pseudochild_ = src[n].pseudochild_,
                   !.parent_ = parent]} |->
  Bind([kids \in {Children(src, n)} |->
    LET C[i \in 0..Len(kids)] ==
          IF i = 0 THEN [h |-> Append(dst, me), ids |-> << >>]
          ELSE Bind([c \in {C[i - 1]} |->
               Bind([r \in {CopyNode(src, kids[i], c.h, id)} |->
                 [h |-> r.h, ids |-> Append(c.ids, r.id)]])])
    IN Bind([copied \in {C[Len(kids)]} |->
       Bind([h1 \in {copied.h} |->
       Bind([ids \in {copied.ids} |->
         LET L[i \in 1..Len(kids)] ==
               IF i = 1 THEN h1
               ELSE Bind([h2 \in {L[i - 1]} |->
                    Bind([h3 \in {AddImmediateSibling(h2, ids[i], ids[i - 1])} |->
                      AddImmediateSibling(h3, ids[i - 1], ids[i])])])
         IN IF src[n].type_ = "pnode"
            THEN [h |-> [h1 EXCEPT ![id].circular_link_ = ids], id |-> id]
            ELSE IF src[n].type_ = "qnode"
            THEN [h |-> [L[Len(kids)] EXCEPT ![id].endmost_children_ =
                           <<ids[1], IF Len(kids) = 1 THEN Dangling
                                     ELSE ids[Len(kids)]>>],
                  id |-> id]
            ELSE [h |-> h1, id |-> id]])])])])])])

----------------------------------------------------------------------------
(* PQTree *)

\* PQTree::PQTree(set<int>): a P-node root with one leaf per element, in the
\* ascending order in which the std::set is iterated.
NewTree(S) ==
  Bind([vals \in {CHOOSE o \in Orders(S) :
                    \A i, j \in 1..Len(o) : i < j => o[i] < o[j]} |->
    [heap |-> << [NewNode("pnode") EXCEPT
                    !.circular_link_ = [i \in 1..Len(vals) |-> i + 1]] >>
              \o [i \in 1..Len(vals) |->
                    [NewLeaf(vals[i]) EXCEPT !.parent_ = 1]],
     root_ |-> 1,
     invalid_ |-> FALSE,
     pseudonode_ |-> NULL,
     block_count_ |-> 0,
     blocked_nodes_ |-> 0,
     off_the_top_ |-> 0,
     reductions_ |-> << >>,
     leaf_address_ |->
       [v \in S |-> (CHOOSE i \in 1..Len(vals) : vals[i] = v) + 1]]])

\* A copy that holds the tree as the constructor builds it over the same
\* leaves, with the members of the original.
CopyFrom_Unreduced(to_copy) ==
  [NewTree(DOMAIN to_copy.leaf_address_) EXCEPT
     !.invalid_ = to_copy.invalid_,
     !.reductions_ = to_copy.reductions_]

\* PQTree::CopyFrom, PQTree::PQTree(const PQTree&)
CopyFrom(to_copy) ==
  Bind([c \in {CopyNode(to_copy.heap, to_copy.root_, << >>, NULL)} |->
    [heap |-> c.h,
     root_ |-> c.id,
     block_count_ |-> to_copy.block_count_,
     blocked_nodes_ |-> to_copy.blocked_nodes_,
     invalid_ |-> to_copy.invalid_,
     off_the_top_ |-> to_copy.off_the_top_,
     pseudonode_ |-> NULL,
     reductions_ |-> to_copy.reductions_,
     leaf_address_ |-> FindLeaves(c.h, c.id)]])

\* PQTree::Frontier
Frontier(t) == FindFrontier(t.heap, t.root_)

\* PQTree::Print
PrintTree(t) == PrintNode(t.heap, t.root_)

\* PQTree::GetReductions
GetReductions(t) == t.reductions_

\* SetMethods::SetUnion: std::set_union of two std::set<int>.
SetUnion(A, B) == A \cup B

\* SetMethods::SetFind
SetFind(S, x) == x \in S

\* PQTree::GetContained: the sets of reductions_ united from first to last.
GetContained(t) ==
  LET out[i \in 0..Len(t.reductions_)] ==
        IF i = 0 THEN {} ELSE SetUnion(out[i - 1], t.reductions_[i])
  IN out[Len(t.reductions_)]

\* A ReducedFrontier that returns the frontier as it is.
ReducedFrontier_Unfiltered(t) == FindFrontier(t.heap, t.root_)

\* PQTree::ReducedFrontier: the values FindFrontier lists from the root that
\* are found in the union of reductions_, in the order of the list.
ReducedFrontier(t) ==
  LET inter == FindFrontier(t.heap, t.root_)
      allContained[i \in 0..Len(t.reductions_)] ==
        IF i = 0 THEN {} ELSE SetUnion(allContained[i - 1], t.reductions_[i])
  IN SelectSeq(inter,
               LAMBDA v : SetFind(allContained[Len(t.reductions_)], v))

\* The nodes reachable from n, in depth-first order.
RECURSIVE Preorder(_, _)
Preorder(h, n) ==
  Bind([kids \in {Children(h, n)} |->
    LET P[i \in 0..Len(kids)] ==
          IF i = 0 THEN <<n>> ELSE P[i - 1] \o Preorder(h, kids[i])
    IN P[Len(kids)]])

\* The heap renumbered: the nodes reachable from the root take the places
\* 1, 2, ... in depth-first order, every other node is dropped and a pointer
\* to a dropped or freed node becomes Dangling.  No field is changed
\* otherwise.  Applied when a public call returns.
Canon(t) ==
  Bind([h \in {t.heap} |->
  Bind([order \in {Preorder(t.heap, t.root_)} |->
    LET Map(p) == IF p = NULL THEN NULL
                  ELSE IF \E i \in 1..Len(order) : order[i] = p
                  THEN CHOOSE i \in 1..Len(order) : order[i] = p
                  ELSE Dangling
        MapSeq(q) == [i \in 1..Len(q) |-> Map(q[i])]
        MapNode(n) ==
          [n EXCEPT !.parent_ = Map(@),
                    !.circular_link_ = MapSeq(@),
                    !.endmost_children_ = MapSeq(@),
                    !.pseudo_neighbors_ = MapSeq(@),
                    !.immediate_siblings_ = MapSeq(@),
                    !.full_children_ = { Map(c) : c \in @ },
                    !.partial_children_ = { Map(c) : c \in @ }]
    IN [t EXCEPT !.heap = [i \in 1..Len(order) |-> MapNode(h[order[i]])],
                 !.root_ = Map(@),
                 !.pseudonode_ = Map(@),
                 !.leaf_address_ = [v \in DOMAIN @ |-> Map(@[v])]]])])

\* leaf_address_[v] of the std::map: NULL for a key it does not hold (which
\* operator[] then inserts).
LeafAddress(t, v) ==
  IF v \in DOMAIN t.leaf_address_ THEN t.leaf_address_[v] ELSE NULL

\* The leaves of `reduction_set` in the order the std::set<int> is iterated.
RECURSIVE LeavesOf(_, _)
LeavesOf(t, reduction_set) ==
  IF reduction_set = {} THEN << >>
  ELSE LET v == CHOOSE x \in reduction_set : \A y \in reduction_set : x <= y
       IN <<LeafAddress(t, v)>> \o LeavesOf(t, reduction_set \ {v})

\* PQTree::UnblockSiblings: the heap afterwards and the count returned.
RECURSIVE UnblockSiblings(_, _, _, _)
UnblockSiblings(h, candidate_node, parent, last) ==
  IF h[candidate_node].mark_ # "blocked" THEN [h |-> h, n |-> 0]
  ELSE Bind([h1 \in {[h EXCEPT ![candidate_node].mark_ = "unblocked",
                               ![candidate_node].parent_ = parent]} |->
       Bind([sibs \in {SiblingsOf(h1, candidate_node)} |->
         LET R[i \in 0..Len(sibs)] ==
               IF i = 0 THEN [h |-> h1, n |-> 1]
               ELSE Bind([done \in {R[i - 1]} |->
                      IF sibs[i] = last THEN done
                      ELSE Bind([r \in {UnblockSiblings(done.h, sibs[i],
                                           parent, candidate_node)} |->
                             [h |-> r.h, n |-> done.n + r.n]])])
         IN R[Len(sibs)]])])

\* The condition of Bubble's main loop, q.size() + block_count_ +
\* off_the_top_ > 1.  The sum is computed in size_t, so a negative
\* block_count_ that makes it negative wraps to a huge value.
BubbleLoopCond(t, q) ==
  LET sum == Len(q) + t.block_count_ + t.off_the_top_
  IN sum < 0 \/ sum > 1

\* One iteration of Bubble's main loop with a non-empty queue.  `u` is
\* *unblocked_siblings.begin() when that set is not empty.  The result is the
\* tree, the queue and blocked_list afterwards.
BubbleIteration(t, q, blocked_list, u) ==
  Bind([candidate_node \in {Head(q)} |->
  Bind([h0 \in {[t.heap EXCEPT ![candidate_node].mark_ = "blocked"]} |->
  Bind([sibs \in {SeqToSet(SiblingsOf(h0, candidate_node))} |->
  Bind([blocked_siblings \in {{ s \in sibs : h0[s].mark_ = "blocked" }} |->
  Bind([unblocked_siblings \in {{ s \in sibs : h0[s].mark_ = "unblocked" }} |->
  Bind([h1 \in {IF unblocked_siblings # {}
                THEN [h0 EXCEPT ![candidate_node].parent_ = h0[u].parent_,
                                ![candidate_node].mark_ = "unblocked"]
                ELSE IF ImmediateSiblingCount(h0, candidate_node) < 2
                THEN [h0 EXCEPT ![candidate_node].mark_ = "unblocked"]
                ELSE h0} |->
  Bind([parent \in {h1[candidate_node].parent_} |->
    IF h1[candidate_node].mark_ = "unblocked"
    THEN
      Bind([blocked \in {[h1 EXCEPT ![candidate_node].mark_ = "blocked"]} |->
      Bind([ub \in {IF blocked_siblings # {}
                    THEN UnblockSiblings(blocked, candidate_node, parent, NULL)
                    ELSE [h |-> h1, n |-> 0]} |->
      Bind([list_size \in {ub.n} |->
      Bind([h2 \in {IF blocked_siblings # {}
                    THEN [ub.h EXCEPT ![parent].pertinent_child_count =
                                        @ + list_size - 1]
                    ELSE ub.h} |->
      Bind([push \in {parent # NULL /\ h2[parent].mark_ = "unmarked"} |->
      Bind([h3 \in {IF parent = NULL THEN h2
                    ELSE [h2 EXCEPT
                            ![parent].pertinent_child_count = @ + 1,
                            ![parent].mark_ =
                               IF push THEN "queued" ELSE @]} |->
        [t |-> [t EXCEPT
                  !.heap = h3,
                  !.off_the_top_ = IF parent = NULL THEN 1 ELSE @,
                  !.block_count_ = @ - Cardinality(blocked_siblings),
                  !.blocked_nodes_ = @ - list_size],
         q |-> IF push THEN Append(Tail(q), parent) ELSE Tail(q),
         blocked_list |-> blocked_list]])])])])])])
    ELSE [t |-> [t EXCEPT
                   !.heap = h1,
                   !.block_count_ = @ + 1 - Cardinality(blocked_siblings),
                   !.blocked_nodes_ = @ + 1],
          q |-> Tail(q),
          blocked_list |-> blocked_list \cup {candidate_node}]])])])])])])])

\* The body of the loop of Bubble that builds the pseudonode, for the nodes
\* of `order` (blocked_list in the order it is iterated) from place i on.
\* `side` counts from 0 as in the code; a store at index 2 is past the
\* arrays endmost_children_[2] and pseudo_neighbors_[2].
RECURSIVE PseudoChildren(_, _, _, _, _)
PseudoChildren(h, pseudonode, order, i, side) ==
  IF i > Len(order) THEN h
  ELSE IF h[order[i]].mark_ # "blocked"
  THEN PseudoChildren(h, pseudonode, order, i + 1, side)
  ELSE
    LET blocked == order[i]
        \* the neighbour `sibling` is detached and stored in pseudo_neighbors_
        Detach(hh, sibling) ==
          Bind([d1 \in {RemoveImmediateSibling(hh, blocked, sibling)} |->
          Bind([d \in {RemoveImmediateSibling(d1, sibling, blocked)} |->
            IF side < 2
            THEN [d EXCEPT ![pseudonode].pseudo_neighbors_[side + 1] = sibling]
            ELSE Append(d, OutOfBounds)])])
    IN
    Bind([h1 \in {[h EXCEPT
                     ![pseudonode].pertinent_child_count = @ + 1,
                     ![pseudonode].pertinent_leaf_count =
                        @ + h[blocked].pertinent_leaf_count]} |->
    Bind([s1 \in {h1[blocked].immediate_siblings_[1]} |->
    Bind([s2 \in {h1[blocked].immediate_siblings_[2]} |->
    \* j = 0
    Bind([r1 \in {IF s1 = NULL THEN [h |-> h1, count |-> 0, more |-> FALSE]
                  ELSE IF h1[s1].mark_ = "blocked"
                  THEN [h |-> h1, count |-> 1, more |-> TRUE]
                  ELSE [h |-> Detach(h1, s1), count |-> 0,
                        more |-> FALSE]} |->
    \* j = 1, reached when the first slot held a blocked sibling
    Bind([r2 \in {IF ~r1.more \/ s2 = NULL THEN r1
                  ELSE IF r1.h[s2].mark_ = "blocked"
                  THEN [r1 EXCEPT !.count = 2]
                  ELSE [r1 EXCEPT !.h = Detach(r1.h, s2)]} |->
    Bind([h2 \in {[r2.h EXCEPT ![blocked].parent_ = pseudonode,
                               ![blocked].pseudochild_ = "true"]} |->
      IF r2.count < 2
      THEN Bind([h3 \in {IF side < 2
                         THEN [h2 EXCEPT
                                 ![pseudonode].endmost_children_[side + 1] =
                                    blocked]
                         ELSE Append(h2, OutOfBounds)} |->
             PseudoChildren(h3, pseudonode, order, i + 1, side + 1)])
      ELSE PseudoChildren(h2, pseudonode, order, i + 1, side)])])])])])])

\* Bubble after its main loop: FALSE when the blocked nodes do not form one
\* block; otherwise the tree, with a pseudonode when the one block left
\* holds more than one node.  `order` is blocked_list as iterated.
BubbleTail(t, blocked_list, order) ==
  IF t.block_count_ > 1 \/ (t.off_the_top_ = 1 /\ t.block_count_ # 0)
  THEN [ok |-> FALSE, t |-> t]
  ELSE
    Bind([correct_blocked_count \in
            {Cardinality({ b \in blocked_list :
                            t.heap[b].mark_ = "blocked" })} |->
    Bind([pseudonode \in {Len(t.heap) + 1} |->
    Bind([h0 \in {Append(t.heap, [NewNode("qnode") EXCEPT
                                    !.pseudonode_ = "true",
                                    !.pertinent_child_count = 0])} |->
      IF t.block_count_ = 1 /\ correct_blocked_count > 1
      THEN [ok |-> TRUE,
            t |-> [t EXCEPT
                     !.heap = PseudoChildren(h0, pseudonode, order, 1, 0),
                     !.pseudonode_ = pseudonode]]
      ELSE [ok |-> TRUE, t |-> t]])])])

----------------------------------------------------------------------------
(* The templates.  Each takes the tree and the candidate node and gives   *)
(* [ok |-> the value returned, t |-> the tree afterwards].  `fo` is the    *)
(* candidate's full_children_ and `po` its partial_children_, each in the  *)
(* order in which the std::set is iterated.                                *)

Miss(t) == [ok |-> FALSE, t |-> t]

Match(t, h) == [ok |-> TRUE, t |-> [t EXCEPT !.heap = h]]

\* PQNode::LabelAsFull
LabelAsFull(h, n) ==
  LET h1 == [h EXCEPT ![n].label_ = "full"]
      parent == h[n].parent_
  IN IF parent = NULL THEN h1
     ELSE IF Destroyed(h, parent) THEN Append(h1, UseAfterFree)
     ELSE [h1 EXCEPT ![parent].full_children_ = @ \cup {n}]

\* PQNode::MoveFullChildren
RECURSIVE MoveFullChildren(_, _, _, _)
MoveFullChildren(h, n, new_node, fo) ==
  IF fo = << >> THEN h
  ELSE Bind([h1 \in {[h EXCEPT
                        ![n].circular_link_ = ListRemove(@, Head(fo)),
                        ![new_node].circular_link_ = Append(@, Head(fo)),
                        ![Head(fo)].parent_ = new_node]} |->
         MoveFullChildren(h1, n, new_node, Tail(fo))])

\* PQNode::SwapQ
SwapQ(h, this, toInsert) ==
  LET parent == h[this].parent_
      Side(hh, i) ==
        Bind([e \in {IF hh[parent].endmost_children_[i] = this
                     THEN [hh EXCEPT ![parent].endmost_children_[i] = toInsert]
                     ELSE hh} |->
        Bind([sib \in {e[this].immediate_siblings_[i]} |->
          IF sib # NULL
          THEN ReplaceImmediateSibling(e, sib, this, toInsert)
          ELSE e])])
  IN
  Bind([h0 \in {[h EXCEPT ![toInsert].pseudochild_ = h[this].pseudochild_]} |->
  Bind([h1 \in {ClearImmediateSiblings(h0, toInsert)} |->
  Bind([h2 \in {Side(h1, 1)} |->
  Bind([h3 \in {Side(h2, 2)} |->
    [ClearImmediateSiblings(h3, this) EXCEPT ![this].parent_ = NULL]])])])])

\* PQNode::ReplacePartialChild
ReplacePartialChild(h, this, old_child, new_child) ==
  Bind([h1 \in {[h EXCEPT ![new_child].parent_ = this,
                          ![this].partial_children_ =
                             (@ \cup {new_child}) \ {old_child}]} |->
    IF h1[this].type_ = "pnode"
    THEN [h1 EXCEPT ![this].circular_link_ =
                       Append(ListRemove(@, old_child), new_child)]
    ELSE SwapQ(h1, old_child, new_child)])

\* The loop `for (i = 0; i < 2 && n->immediate_siblings_[i]; ++i)
\* n->immediate_siblings_[i]->ReplaceImmediateSibling(n, new_child)` of
\* ReplaceChild, TemplateP5 and TemplateP6.
ReplaceInSiblings(h, n, new_child) ==
  Bind([s1 \in {h[n].immediate_siblings_[1]} |->
  Bind([h1 \in {IF s1 # NULL
                THEN ReplaceImmediateSibling(h, s1, n, new_child)
                ELSE h} |->
  Bind([s2 \in {h1[n].immediate_siblings_[2]} |->
    IF s1 # NULL /\ s2 # NULL
    THEN ReplaceImmediateSibling(h1, s2, n, new_child)
    ELSE h1])])])

\* PQNode::ReplaceChild.  Called on a deleted node, it reads type_ and
\* writes the members of that node: the storage is taken to hold the Q-node
\* it held, so that the siblings of old_child are relinked and no node of
\* the tree is written otherwise.
ReplaceChild(h, this, old_child, new_child) ==
  IF Destroyed(h, this)
  THEN Append([ReplaceInSiblings(h, old_child, new_child)
                 EXCEPT ![new_child].parent_ = h[old_child].parent_],
              UseAfterFree)
  ELSE
  Bind([h0 \in {IF h[this].type_ = "pnode" THEN h
                ELSE ReplaceInSiblings(h, old_child, new_child)} |->
  Bind([h1 \in {IF h[this].type_ = "pnode"
                THEN ReplaceCircularLink(h0, this, old_child, new_child)
                ELSE ReplaceEndmostChild(h0, this, old_child, new_child)} |->
  Bind([p \in {h1[old_child].parent_} |->
  Bind([h2 \in {[h1 EXCEPT ![new_child].parent_ = p]} |->
    IF h2[new_child].label_ = "partial"
    THEN [h2 EXCEPT ![p].partial_children_ = @ \cup {new_child}]
    ELSE IF h2[new_child].label_ = "full"
    THEN [h2 EXCEPT ![p].full_children_ = @ \cup {new_child}]
    ELSE h2])])])])

\* The number of (child, immediate sibling) pairs with the child in `set` and
\* the sibling carrying `label`.
RECURSIVE SiblingLabelCount(_, _, _)
SiblingLabelCount(h, set, label) ==
  IF set = {} THEN 0
  ELSE LET c == CHOOSE x \in set : TRUE
       IN Len(SelectSeq(SiblingsOf(h, c), LAMBDA x : h[x].label_ = label))
          + SiblingLabelCount(h, set \ {c}, label)

\* ConsecutiveFullPartialChildren without the count of full siblings.
ConsecutiveFullPartialChildren_PartialOnly(h, n) ==
  LET full == h[n].full_children_
      partial == h[n].partial_children_
      counts(label) == SiblingLabelCount(h, full, label)
                       + SiblingLabelCount(h, partial, label)
  IN IF Cardinality(full) + Cardinality(partial) <= 1 THEN TRUE
     ELSE counts("partial") = Cardinality(partial)

\* PQNode::ConsecutiveFullPartialChildren.  counts[label] is the number of
\* (child, sibling) pairs with the child full or partial and the sibling
\* carrying `label`.  The right-hand side of the second comparison is
\* computed in size_t and compared as such; it is negative only in the
\* trivial case, which returns first.
ConsecutiveFullPartialChildren(h, n) ==
  LET full == h[n].full_children_
      partial == h[n].partial_children_
      counts(label) == SiblingLabelCount(h, full, label)
                       + SiblingLabelCount(h, partial, label)
  IN IF Cardinality(full) + Cardinality(partial) <= 1 THEN TRUE
     ELSE IF counts("partial") # Cardinality(partial) THEN FALSE
     ELSE IF counts("full") #
               (Cardinality(full) * 2) - (2 - counts("partial"))
     THEN FALSE
     ELSE TRUE

\* PQTree::TemplateL1
TemplateL1(t, candidate_node) ==
  IF t.heap[candidate_node].type_ # "leaf" THEN Miss(t)
  ELSE Match(t, LabelAsFull(t.heap, candidate_node))

\* QNodeChildrenIterator: the children Current() gives between Reset() and
\* IsDone().  When the first child has two immediate siblings, Next() calls
\* NextPseudoNodeSibling, which moves to the full sibling and, when there is
\* none, calls a method through the null current_.
RECURSIVE QIterate(_, _, _, _, _)
QIterate(h, current, prev, next, acc) ==
  IF current = NULL THEN acc
  ELSE IF Len(acc) > Len(h) THEN Append(acc, NULL)
  ELSE
    Bind([pseudo_start \in
            {prev = NULL /\ ImmediateSiblingCount(h, current) = 2} |->
    Bind([cur2 \in {IF pseudo_start
                    THEN ImmediateSiblingWithLabel(h, current, "full")
                    ELSE next} |->
      IF pseudo_start /\ cur2 = NULL
      THEN Append(Append(acc, current), NULL)
      ELSE
        Bind([nxt2 \in {IF cur2 = NULL THEN next
                        ELSE IF h[cur2].immediate_siblings_[1] = current
                        THEN h[cur2].immediate_siblings_[2]
                        ELSE h[cur2].immediate_siblings_[1]} |->
        Bind([acc2 \in {Append(acc, current)} |->
          QIterate(h, cur2, current, nxt2, acc2)])])])])

QNodeChildrenIterator(h, parent) ==
  Bind([first \in {h[parent].endmost_children_[1]} |->
    QIterate(h, first, NULL, h[first].immediate_siblings_[1], << >>)])

\* TemplateQ1 that labels the node before it looks at the children.
TemplateQ1_LabelsFirst(t, candidate_node) ==
  IF t.heap[candidate_node].type_ # "qnode" THEN Miss(t)
  ELSE
    Bind([h \in {t.heap} |->
    Bind([it \in {QNodeChildrenIterator(h, candidate_node)} |->
      IF \E i \in 1..Len(it) : h[it[i]].label_ # "full"
      THEN [ok |-> FALSE,
            t |-> [t EXCEPT !.heap = LabelAsFull(h, candidate_node)]]
      ELSE Match(t, LabelAsFull(h, candidate_node))])])

\* PQTree::TemplateQ1
TemplateQ1(t, candidate_node) ==
  IF t.heap[candidate_node].type_ # "qnode" THEN Miss(t)
  ELSE
    Bind([h \in {t.heap} |->
    Bind([it \in {QNodeChildrenIterator(h, candidate_node)} |->
      IF \E i \in 1..Len(it) : h[it[i]].label_ # "full" THEN Miss(t)
      ELSE Match(t, LabelAsFull(h, candidate_node))])])

\* TemplateQ2 that never matches.
TemplateQ2_Never(t, candidate_node, po) == Miss(t)

\* TemplateQ2 whose merge leaves the parent pointer of a new endmost child
\* as it was.
TemplateQ2_NoReparent(t, candidate_node, po) ==
  Bind([h \in {t.heap} |->
  Bind([x \in {t.heap[candidate_node]} |->
  Bind([has_partial \in {Cardinality(x.partial_children_) > 0} |->
  Bind([has_full \in {Cardinality(x.full_children_) > 0} |->
    IF x.type_ # "qnode" \/ x.pseudonode_ = "true"
       \/ Cardinality(x.partial_children_) > 1
       \/ ~ConsecutiveFullPartialChildren(h, candidate_node)
    THEN Miss(t)
    ELSE IF has_full
            /\ EndmostChildWithLabel(h, candidate_node, "full") = NULL
    THEN Miss(t)
    ELSE IF ~has_full
            /\ EndmostChildWithLabel(h, candidate_node, "partial") = NULL
    THEN Miss(t)
    ELSE
      LET to_merge == po[1]
          Merge(hh, i) ==
            Bind([child \in {hh[to_merge].endmost_children_[i]} |->
            Bind([sibling \in {ImmediateSiblingWithLabel(
                                 hh, to_merge, hh[child].label_)} |->
              IF sibling # NULL
              THEN ReplaceImmediateSibling(hh, sibling, to_merge, child)
              ELSE ReplaceEndmostChild(hh, candidate_node, to_merge,
                                       child)])])
      IN
      Bind([m1 \in {IF has_partial THEN Merge(h, 1) ELSE h} |->
      Bind([m2 \in {IF has_partial THEN Merge(m1, 2) ELSE h} |->
      Bind([h1 \in {IF has_partial
                    THEN Delete(ForgetChildren(m2, to_merge), to_merge)
                    ELSE h} |->
      Bind([h2 \in {[h1 EXCEPT ![candidate_node].label_ = "partial"]} |->
      Bind([parent \in {h2[candidate_node].parent_} |->
        Match(t, IF parent = NULL THEN h2
                 ELSE IF Destroyed(h2, parent)
                 THEN Append(h2, UseAfterFree)
                 ELSE [h2 EXCEPT ![parent].partial_children_ =
                                    @ \cup {candidate_node}])])])])])])])])])])

\* TemplateQ2 whose merge joins each end child of the partial child to the
\* neighbour that carries the label of the other end child.
TemplateQ2_Crossed(t, candidate_node, po) ==
  Bind([h \in {t.heap} |->
  Bind([x \in {t.heap[candidate_node]} |->
  Bind([has_partial \in {Cardinality(x.partial_children_) > 0} |->
  Bind([has_full \in {Cardinality(x.full_children_) > 0} |->
    IF x.type_ # "qnode" \/ x.pseudonode_ = "true"
       \/ Cardinality(x.partial_children_) > 1
       \/ ~ConsecutiveFullPartialChildren(h, candidate_node)
    THEN Miss(t)
    ELSE IF has_full
            /\ EndmostChildWithLabel(h, candidate_node, "full") = NULL
    THEN Miss(t)
    ELSE IF ~has_full
            /\ EndmostChildWithLabel(h, candidate_node, "partial") = NULL
    THEN Miss(t)
    ELSE
      LET to_merge == po[1]
          Merge(hh, i) ==
            Bind([child \in {hh[to_merge].endmost_children_[i]} |->
            Bind([sibling \in {ImmediateSiblingWithLabel(
                                 hh, to_merge,
                                 hh[hh[to_merge].endmost_children_[3 - i]]
                                   .label_)} |->
              IF sibling # NULL
              THEN ReplaceImmediateSibling(hh, sibling, to_merge, child)
              ELSE [ReplaceEndmostChild(hh, candidate_node, to_merge, child)
                      EXCEPT ![child].parent_ = candidate_node]])])
      IN
      Bind([m1 \in {IF has_partial THEN Merge(h, 1) ELSE h} |->
      Bind([m2 \in {IF has_partial THEN Merge(m1, 2) ELSE h} |->
      Bind([h1 \in {IF has_partial
                    THEN Delete(ForgetChildren(m2, to_merge), to_merge)
                    ELSE h} |->
      Bind([h2 \in {[h1 EXCEPT ![candidate_node].label_ = "partial"]} |->
      Bind([parent \in {h2[candidate_node].parent_} |->
        Match(t, IF parent = NULL THEN h2
                 ELSE IF Destroyed(h2, parent)
                 THEN Append(h2, UseAfterFree)
                 ELSE [h2 EXCEPT ![parent].partial_children_ =
                                    @ \cup {candidate_node}])])])])])])])])])])

\* PQTree::TemplateQ2
TemplateQ2(t, candidate_node, po) ==
  Bind([h \in {t.heap} |->
  Bind([x \in {t.heap[candidate_node]} |->
  Bind([has_partial \in {Cardinality(x.partial_children_) > 0} |->
  Bind([has_full \in {Cardinality(x.full_children_) > 0} |->
    IF x.type_ # "qnode" \/ x.pseudonode_ = "true"
       \/ Cardinality(x.partial_children_) > 1
       \/ ~ConsecutiveFullPartialChildren(h, candidate_node)
    THEN Miss(t)
    ELSE IF has_full
            /\ EndmostChildWithLabel(h, candidate_node, "full") = NULL
    THEN Miss(t)
    ELSE IF ~has_full
            /\ EndmostChildWithLabel(h, candidate_node, "partial") = NULL
    THEN Miss(t)
    ELSE
      LET to_merge == po[1]
          Merge(hh, i) ==
            Bind([child \in {hh[to_merge].endmost_children_[i]} |->
            Bind([sibling \in {ImmediateSiblingWithLabel(
                                 hh, to_merge, hh[child].label_)} |->
              IF sibling # NULL
              THEN ReplaceImmediateSibling(hh, sibling, to_merge, child)
              ELSE [ReplaceEndmostChild(hh, candidate_node, to_merge, child)
                      EXCEPT ![child].parent_ = candidate_node]])])
      IN
      Bind([m1 \in {IF has_partial THEN Merge(h, 1) ELSE h} |->
      Bind([m2 \in {IF has_partial THEN Merge(m1, 2) ELSE h} |->
      Bind([h1 \in {IF has_partial
                    THEN Delete(ForgetChildren(m2, to_merge), to_merge)
                    ELSE h} |->
      Bind([h2 \in {[h1 EXCEPT ![candidate_node].label_ = "partial"]} |->
      Bind([parent \in {h2[candidate_node].parent_} |->
        Match(t, IF parent = NULL THEN h2
                 ELSE IF Destroyed(h2, parent)
                 THEN Append(h2, UseAfterFree)
                 ELSE [h2 EXCEPT ![parent].partial_children_ =
                                    @ \cup {candidate_node}])])])])])])])])])])

\* PQTree::TemplateQ3
TemplateQ3(t, candidate_node, po) ==
  Bind([h \in {t.heap} |->
  Bind([x \in {t.heap[candidate_node]} |->
    IF x.type_ # "qnode"
       \/ Cardinality(x.partial_children_) > 2
       \/ ~ConsecutiveFullPartialChildren(h, candidate_node)
    THEN Miss(t)
    ELSE
      LET Side(hh, to_merge, i) ==
            Bind([sibling \in {hh[to_merge].immediate_siblings_[i]} |->
              IF sibling # NULL
              THEN
                Bind([c1 \in {EndmostChildWithLabel(hh, to_merge,
                                                    hh[sibling].label_)} |->
                Bind([child \in
                        {IF c1 # NULL THEN c1
                         ELSE EndmostChildWithLabel(hh, to_merge, "full")} |->
                  ReplaceImmediateSibling(hh, sibling, to_merge, child)])])
              ELSE
                Bind([empty_child \in
                        {EndmostChildWithLabel(hh, to_merge, "empty")} |->
                Bind([h1 \in {[hh EXCEPT ![empty_child].parent_ =
                                           candidate_node]} |->
                  ReplaceEndmostChild(h1, candidate_node, to_merge,
                                      empty_child)])])])
          MergeOne(hh, to_merge) ==
            Bind([m1 \in {Side(hh, to_merge, 1)} |->
            Bind([m2 \in {Side(m1, to_merge, 2)} |->
              Delete(ForgetChildren(m2, to_merge), to_merge)])])
          M[j \in 0..Len(po)] ==
            IF j = 0 THEN h
            ELSE Bind([merged \in {M[j - 1]} |-> MergeOne(merged, po[j])])
      IN Match(t, M[Len(po)])])])

\* Variants of the templates that the properties at the end of the module
\* must tell from the templates themselves.
\* TemplateP1 that also rotates the children of the full node.
TemplateP1_Rotating(t, candidate_node, is_reduction_root) ==
  Bind([h \in {t.heap} |->
  Bind([x \in {t.heap[candidate_node]} |->
    IF x.type_ # "pnode"
       \/ Cardinality(x.full_children_) # ChildCount(h, candidate_node)
    THEN Miss(t)
    ELSE
      Bind([h1 \in {[h EXCEPT ![candidate_node].label_ = "full",
                              ![candidate_node].circular_link_ =
                                 Append(Tail(@), Head(@))]} |->
        Match(t, IF ~is_reduction_root
                 THEN [h1 EXCEPT ![x.parent_].full_children_ =
                                    @ \cup {candidate_node}]
                 ELSE h1)])])])

\* TemplateP2 that matches where TemplateP2 does but leaves the full
\* children where they are.
TemplateP2_NoGrouping(t, candidate_node, fo) ==
  IF t.heap[candidate_node].type_ # "pnode"
     \/ t.heap[candidate_node].partial_children_ # {}
  THEN Miss(t)
  ELSE Match(t, [t.heap EXCEPT ![candidate_node].label_ = "partial"])

\* TemplateP3 that never matches.
TemplateP3_Never(t, candidate_node, fo) == Miss(t)

\* TemplateP4 that matches where TemplateP4 looks for the ends of the
\* partial child, and leaves the tree as it is.
TemplateP4_NoMerge(t, candidate_node, fo, po) ==
  IF t.heap[candidate_node].type_ # "pnode"
     \/ Cardinality(t.heap[candidate_node].partial_children_) # 1
  THEN Miss(t)
  ELSE Match(t, t.heap)

\* TemplateP2 that groups the full children under the new P-node and does
\* not link the new P-node into the candidate.
TemplateP2_Unlinked(t, candidate_node, fo) ==
  IF t.heap[candidate_node].type_ # "pnode"
     \/ t.heap[candidate_node].partial_children_ # {}
  THEN Miss(t)
  ELSE IF Cardinality(t.heap[candidate_node].full_children_) >= 2
  THEN Match(t, [MoveFullChildren(
                   Append(t.heap, [NewNode("pnode") EXCEPT
                                     !.parent_ = candidate_node]),
                   candidate_node, Len(t.heap) + 1, fo)
                 EXCEPT ![candidate_node].label_ = "partial"])
  ELSE Match(t, [t.heap EXCEPT ![candidate_node].label_ = "partial"])

\* PQTree::TemplateP1
TemplateP1(t, candidate_node, is_reduction_root) ==
  Bind([h \in {t.heap} |->
  Bind([x \in {t.heap[candidate_node]} |->
    IF x.type_ # "pnode"
       \/ Cardinality(x.full_children_) # ChildCount(h, candidate_node)
    THEN Miss(t)
    ELSE
      Bind([h1 \in {[h EXCEPT ![candidate_node].label_ = "full"]} |->
        Match(t, IF ~is_reduction_root
                 THEN [h1 EXCEPT ![x.parent_].full_children_ =
                                    @ \cup {candidate_node}]
                 ELSE h1)])])])

\* PQTree::TemplateP2
TemplateP2(t, candidate_node, fo) ==
  Bind([h \in {t.heap} |->
  Bind([x \in {t.heap[candidate_node]} |->
    IF x.type_ # "pnode" \/ x.partial_children_ # {} THEN Miss(t)
    ELSE
      Bind([new_pnode \in {Len(h) + 1} |->
      Bind([h0 \in {Append(h, [NewNode("pnode") EXCEPT
                                 !.parent_ = candidate_node])} |->
      Bind([moved \in {IF Cardinality(x.full_children_) >= 2
                       THEN MoveFullChildren(h0, candidate_node, new_pnode,
                                             fo)
                       ELSE h} |->
      Bind([h1 \in {IF Cardinality(x.full_children_) >= 2
                    THEN [moved EXCEPT ![candidate_node].circular_link_ =
                                         Append(@, new_pnode)]
                    ELSE h} |->
        Match(t, [h1 EXCEPT ![candidate_node].label_ = "partial"])])])])])])])

\* The same step with a new P-node made for a single full child as well.
GatherFullChildren_AlwaysNew(h, candidate_node, fo) ==
  Bind([h0 \in {Append(h, [NewNode("pnode") EXCEPT
                             !.label_ = "full"])} |->
    [h |-> MoveFullChildren(h0, candidate_node, Len(h) + 1, fo),
     node |-> Len(h) + 1]])

\* The step shared by P3, P4, P5 and P6 that gathers the full children of
\* candidate_node under one node: the single full child itself, taken out
\* of circular_link_, or a new full P-node that the full children are moved
\* to.  The result is the heap and that node.
GatherFullChildren(h, candidate_node, fo) ==
  IF Cardinality(h[candidate_node].full_children_) = 1
  THEN [h |-> [h EXCEPT ![candidate_node].circular_link_ =
                           ListRemove(@, fo[1])],
        node |-> fo[1]]
  ELSE Bind([h0 \in {Append(h, [NewNode("pnode") EXCEPT
                                  !.label_ = "full"])} |->
         [h |-> MoveFullChildren(h0, candidate_node, Len(h) + 1, fo),
          node |-> Len(h) + 1]])

\* PQTree::TemplateP3
TemplateP3(t, candidate_node, fo) ==
  Bind([h \in {t.heap} |->
  Bind([x \in {t.heap[candidate_node]} |->
    IF x.type_ # "pnode" \/ x.partial_children_ # {} THEN Miss(t)
    ELSE
      Bind([new_qnode \in {Len(h) + 1} |->
      Bind([h0 \in {Append(h, [NewNode("qnode") EXCEPT
                                 !.label_ = "partial"])} |->
      Bind([h1 \in {ReplacePartialChild(h0, x.parent_, candidate_node,
                                        new_qnode)} |->
      Bind([g \in {GatherFullChildren(h1, candidate_node, fo)} |->
      Bind([full_child \in {g.node} |->
      Bind([h2 \in {[g.h EXCEPT
                       ![full_child].parent_ = new_qnode,
                       ![full_child].label_ = "full",
                       ![new_qnode].endmost_children_[1] = full_child,
                       ![new_qnode].full_children_ = @ \cup {full_child}]} |->
      Bind([single \in {Len(h2[candidate_node].circular_link_) = 1} |->
      Bind([empty_child \in
              {IF single THEN h2[candidate_node].circular_link_[1]
               ELSE candidate_node} |->
      Bind([h3 \in {IF single THEN Delete(h2, candidate_node) ELSE h2} |->
      Bind([h4 \in {[h3 EXCEPT
                       ![empty_child].parent_ = new_qnode,
                       ![empty_child].label_ = "empty",
                       ![new_qnode].endmost_children_[2] = empty_child]} |->
      Bind([h5 \in {[h4 EXCEPT
                       ![empty_child].immediate_siblings_[1] = full_child,
                       ![full_child].immediate_siblings_[1] = empty_child]} |->
        Match(t, h5)])])])])])])])])])])])])])

\* PQTree::TemplateP4
TemplateP4(t, candidate_node, fo, po) ==
  Bind([h \in {t.heap} |->
  Bind([x \in {t.heap[candidate_node]} |->
    IF x.type_ # "pnode" \/ Cardinality(x.partial_children_) # 1
    THEN Miss(t)
    ELSE
      Bind([partial_qnode \in {po[1]} |->
      Bind([empty_child \in
              {EndmostChildWithLabel(h, partial_qnode, "empty")} |->
      Bind([full_child \in
              {EndmostChildWithLabel(h, partial_qnode, "full")} |->
        IF empty_child = NULL \/ full_child = NULL THEN Miss(t)
        ELSE
          Bind([h1 \in
            {IF x.full_children_ = {} THEN h
             ELSE
               Bind([g \in {GatherFullChildren(h, candidate_node, fo)} |->
               Bind([full_children_root \in {g.node} |->
               Bind([a1 \in {[g.h EXCEPT ![full_children_root].parent_ =
                                           partial_qnode]} |->
               Bind([a2 \in {ReplaceEndmostChild(a1, partial_qnode,
                                full_child, full_children_root)} |->
               Bind([a3 \in {[a2 EXCEPT ![partial_qnode].full_children_ =
                                          @ \cup {full_children_root}]} |->
               Bind([a4 \in {AddImmediateSibling(a3, full_child,
                                                 full_children_root)} |->
                 AddImmediateSibling(a4, full_children_root,
                                     full_child)])])])])])])} |->
            IF Len(h1[candidate_node].circular_link_) = 1
            THEN
              Bind([parent \in {h1[candidate_node].parent_} |->
              Bind([h2 \in {[h1 EXCEPT ![partial_qnode].parent_ =
                                         parent]} |->
              Bind([h3 \in {IF parent # NULL
                            THEN ReplaceChild(h2, parent, candidate_node,
                                              partial_qnode)
                            ELSE h2} |->
                [ok |-> TRUE,
                 t |-> [t EXCEPT !.heap = Delete(h3, candidate_node),
                                 !.root_ = IF parent # NULL THEN @
                                           ELSE partial_qnode]]])])])
            ELSE Match(t, h1)])])])])])])

\* PQTree::TemplateP5
TemplateP5(t, candidate_node, fo, po) ==
  Bind([h \in {t.heap} |->
  Bind([x \in {t.heap[candidate_node]} |->
    IF x.type_ # "pnode" \/ Cardinality(x.partial_children_) # 1
    THEN Miss(t)
    ELSE
      Bind([partial_qnode \in {po[1]} |->
      Bind([empty_child \in
              {EndmostChildWithLabel(h, partial_qnode, "empty")} |->
      Bind([full_child \in
              {EndmostChildWithLabel(h, partial_qnode, "full")} |->
      Bind([empty_sibling \in
              {CircularChildWithLabel(h, candidate_node, "empty")} |->
        IF empty_child = NULL \/ full_child = NULL THEN Miss(t)
        ELSE
          Bind([the_parent \in {x.parent_} |->
          Bind([h1 \in {[h EXCEPT
                   ![partial_qnode].parent_ = the_parent,
                   ![partial_qnode].pertinent_leaf_count =
                      x.pertinent_leaf_count,
                   ![partial_qnode].label_ = "partial",
                   ![the_parent].partial_children_ = @ \cup {partial_qnode},
                   ![candidate_node].circular_link_ =
                      ListRemove(@, partial_qnode),
                   ![candidate_node].partial_children_ =
                      @ \ {partial_qnode}]} |->
          Bind([h2 \in
            {IF h1[candidate_node].immediate_siblings_[1] = NULL
             THEN ReplaceCircularLink(h1, the_parent, candidate_node,
                                      partial_qnode)
             ELSE Bind([r \in {ReplaceInSiblings(h1, candidate_node,
                                                 partial_qnode)} |->
                    ReplaceEndmostChild(r, the_parent, candidate_node,
                                        partial_qnode)])} |->
          \* the full children of candidate_node become a child of
          \* partial_qnode
          Bind([h3 \in
            {IF Cardinality(h2[candidate_node].full_children_) = 0 THEN h2
             ELSE
               Bind([g \in {GatherFullChildren(h2, candidate_node, fo)} |->
               Bind([full_children_root \in {g.node} |->
               Bind([a1 \in {[g.h EXCEPT
                                ![candidate_node].full_children_ = {},
                                ![full_children_root].parent_ =
                                   partial_qnode]} |->
               Bind([a2 \in {AddImmediateSibling(a1, full_child,
                                                 full_children_root)} |->
               Bind([a3 \in {AddImmediateSibling(a2, full_children_root,
                                                 full_child)} |->
                 ReplaceEndmostChild(a3, partial_qnode, full_child,
                                     full_children_root)])])])])])} |->
          \* the empty children that candidate_node still has
          Bind([n_empty \in {ChildCount(h3, candidate_node)} |->
          Bind([h5 \in
            {IF n_empty = 0 THEN h3
             ELSE
               Bind([empty_children_root \in
                       {IF n_empty = 1 THEN empty_sibling
                        ELSE candidate_node} |->
               Bind([b0 \in {IF n_empty = 1 THEN h3
                             ELSE [h3 EXCEPT ![candidate_node].label_ =
                                               "empty"]} |->
               Bind([b1 \in {IF n_empty = 1 THEN b0
                             ELSE ClearImmediateSiblings(b0,
                                                         candidate_node)} |->
               Bind([b2 \in {[b1 EXCEPT ![empty_children_root].parent_ =
                                          partial_qnode]} |->
               Bind([b3 \in {AddImmediateSibling(b2, empty_child,
                                                 empty_children_root)} |->
               Bind([b4 \in {AddImmediateSibling(b3, empty_children_root,
                                                 empty_child)} |->
                 ReplaceEndmostChild(b4, partial_qnode, empty_child,
                                     empty_children_root)])])])])])])} |->
            Match(t, IF ChildCount(h5, candidate_node) < 2
                     THEN Delete(h5, candidate_node)
                     ELSE h5)])])])])])])])])])])])])

\* PQTree::TemplateP6
TemplateP6(t, candidate_node, fo, po) ==
  Bind([h \in {t.heap} |->
  Bind([x \in {t.heap[candidate_node]} |->
    IF x.type_ # "pnode" \/ Cardinality(x.partial_children_) # 2
    THEN Miss(t)
    ELSE
      Bind([partial_qnode1 \in {po[1]} |->
      Bind([partial_qnode2 \in {po[2]} |->
      Bind([empty_child1 \in
              {EndmostChildWithLabel(h, partial_qnode1, "empty")} |->
      Bind([full_child1 \in
              {EndmostChildWithLabel(h, partial_qnode1, "full")} |->
        IF empty_child1 = NULL \/ full_child1 = NULL THEN Miss(t)
        ELSE
          Bind([empty_child2 \in
                  {EndmostChildWithLabel(h, partial_qnode2, "empty")} |->
          Bind([full_child2 \in
                  {EndmostChildWithLabel(h, partial_qnode2, "full")} |->
            IF empty_child2 = NULL \/ full_child2 = NULL THEN Miss(t)
            ELSE
              Bind([h1 \in
                {IF x.full_children_ # {}
                 THEN
                   Bind([g \in {GatherFullChildren(h, candidate_node,
                                                   fo)} |->
                   Bind([full_children_root \in {g.node} |->
                   Bind([a1 \in {[g.h EXCEPT
                                    ![full_children_root].parent_ =
                                       partial_qnode1,
                                    ![full_child2].parent_ =
                                       partial_qnode1]} |->
                   Bind([a2 \in {AddImmediateSibling(a1, full_child1,
                                    full_children_root)} |->
                   Bind([a3 \in {AddImmediateSibling(a2, full_child2,
                                    full_children_root)} |->
                   Bind([a4 \in {AddImmediateSibling(a3, full_children_root,
                                    full_child1)} |->
                     AddImmediateSibling(a4, full_children_root,
                                         full_child2)])])])])])])
                 ELSE
                   Bind([a1 \in {AddImmediateSibling(h, full_child1,
                                                     full_child2)} |->
                     AddImmediateSibling(a1, full_child2,
                                         full_child1)])} |->
              Bind([r \in {ReplaceEndmostChild(h1, partial_qnode1,
                                               full_child1,
                                               empty_child2)} |->
              Bind([h2 \in {[r EXCEPT ![empty_child2].parent_ =
                                        partial_qnode1]} |->
              \* partial_qnode2 is not needed any more
              Bind([c \in {[h2 EXCEPT ![candidate_node].circular_link_ =
                                        ListRemove(@, partial_qnode2)]} |->
              Bind([h3 \in {Delete(ForgetChildren(c, partial_qnode2),
                                   partial_qnode2)} |->
                IF Len(h3[candidate_node].circular_link_) # 1
                THEN Match(t, h3)
                ELSE
                  Bind([parent \in {h3[candidate_node].parent_} |->
                  Bind([h4 \in {[h3 EXCEPT
                           ![partial_qnode1].parent_ = parent,
                           ![partial_qnode1].pertinent_leaf_count =
                              h3[candidate_node].pertinent_leaf_count,
                           ![partial_qnode1].label_ = "partial"]} |->
                    IF parent = NULL
                    THEN [ok |-> TRUE,
                          t |-> [t EXCEPT
                                   !.heap = Delete(h4, candidate_node),
                                   !.root_ = partial_qnode1]]
                    ELSE IF Destroyed(h4, parent)
                    THEN Match(t, Append(ReplaceInSiblings(
                                           h4, candidate_node,
                                           partial_qnode1),
                                         UseAfterFree))
                    ELSE
                      Bind([h5 \in {[h4 EXCEPT
                                       ![parent].partial_children_ =
                                          @ \cup {partial_qnode1}]} |->
                        IF h5[parent].type_ = "pnode"
                        THEN Match(t, ReplaceCircularLink(
                                        h5, parent, candidate_node,
                                        partial_qnode1))
                        ELSE
                          Bind([s \in {ReplaceInSiblings(
                                         h5, candidate_node,
                                         partial_qnode1)} |->
                            Match(t, ReplaceEndmostChild(
                                       s, parent, candidate_node,
                                       partial_qnode1))])])])])
              ])])])])])])])])])])])])])

\* CleanPseudo that deletes the pseudonode and leaves its endmost children
\* without the siblings Bubble took from them.
CleanPseudo_NoRelink(t) ==
  IF t.pseudonode_ = NULL THEN t
  ELSE [t EXCEPT !.heap = Delete(ForgetChildren(@, t.pseudonode_),
                                 t.pseudonode_),
                 !.pseudonode_ = NULL]

\* PQTree::CleanPseudo
CleanPseudo(t) ==
  LET pn == t.pseudonode_
      Link(h, i) ==
        Bind([e \in {h[pn].endmost_children_[i]} |->
        Bind([nb \in {h[pn].pseudo_neighbors_[i]} |->
        Bind([h1 \in {AddImmediateSibling(h, e, nb)} |->
          AddImmediateSibling(h1, nb, e)])])])
  IN IF pn = NULL THEN t
     ELSE Bind([h1 \in {Link(t.heap, 1)} |->
          Bind([h2 \in {Link(h1, 2)} |->
            [t EXCEPT !.heap = Delete(ForgetChildren(h2, pn), pn),
                      !.pseudonode_ = NULL]])])

\* The non-root templates with Q2 tried before Q1.
NonRootTemplates_Q2First(t, x, fo, po) ==
  Bind([l1 \in {TemplateL1(t, x)} |-> IF l1.ok THEN l1 ELSE
  Bind([p1 \in {TemplateP1(t, x, FALSE)} |-> IF p1.ok THEN p1 ELSE
  Bind([p3 \in {TemplateP3(t, x, fo)} |-> IF p3.ok THEN p3 ELSE
  Bind([p5 \in {TemplateP5(t, x, fo, po)} |-> IF p5.ok THEN p5 ELSE
  Bind([q2 \in {TemplateQ2(t, x, po)} |-> IF q2.ok THEN q2 ELSE
  Bind([q1 \in {TemplateQ1(t, x)} |-> IF q1.ok THEN q1 ELSE
    Miss(t)])])])])])])

\* The templates ReduceStep tries on a node that is not the root of the
\* pertinent subtree, in order; the first that matches decides.
NonRootTemplates(t, x, fo, po) ==
  Bind([l1 \in {TemplateL1(t, x)} |-> IF l1.ok THEN l1 ELSE
  Bind([p1 \in {TemplateP1(t, x, FALSE)} |-> IF p1.ok THEN p1 ELSE
  Bind([p3 \in {TemplateP3(t, x, fo)} |-> IF p3.ok THEN p3 ELSE
  Bind([p5 \in {TemplateP5(t, x, fo, po)} |-> IF p5.ok THEN p5 ELSE
  Bind([q1 \in {TemplateQ1(t, x)} |-> IF q1.ok THEN q1 ELSE
  Bind([q2 \in {TemplateQ2(t, x, po)} |-> IF q2.ok THEN q2 ELSE
    Miss(t)])])])])])])

\* The templates ReduceStep tries on the root of the pertinent subtree.
RootTemplates(t, x, fo, po) ==
  Bind([l1 \in {TemplateL1(t, x)} |-> IF l1.ok THEN l1 ELSE
  Bind([p1 \in {TemplateP1(t, x, TRUE)} |-> IF p1.ok THEN p1 ELSE
  Bind([p2 \in {TemplateP2(t, x, fo)} |-> IF p2.ok THEN p2 ELSE
  Bind([p4 \in {TemplateP4(t, x, fo, po)} |-> IF p4.ok THEN p4 ELSE
  Bind([p6 \in {TemplateP6(t, x, fo, po)} |-> IF p6.ok THEN p6 ELSE
  Bind([q1 \in {TemplateQ1(t, x)} |-> IF q1.ok THEN q1 ELSE
  Bind([q2 \in {TemplateQ2(t, x, po)} |-> IF q2.ok THEN q2 ELSE
  Bind([q3 \in {TemplateQ3(t, x, po)} |-> IF q3.ok THEN q3 ELSE
    Miss(t)])])])])])])])])

\* The start of ReduceStep: each leaf of the set gets pertinent_leaf_count 1
\* and is queued.
ReduceStepInit(t, leaves) ==
  [t EXCEPT !.heap =
     [n \in 1..Len(t.heap) |->
        IF n \in SeqToSet(leaves)
        THEN [t.heap[n] EXCEPT !.pertinent_leaf_count = 1]
        ELSE t.heap[n]]]

\* An iteration of ReduceStep that queues the parent of every node it
\* processes, whatever the parent's pertinent_child_count.
ReduceStepIteration_EagerPush(t, q, size, fo, po) ==
  Bind([candidate_node \in {Head(q)} |->
  Bind([h \in {t.heap} |->
    IF h[candidate_node].pertinent_leaf_count < size
    THEN
      Bind([candidate_parent \in {h[candidate_node].parent_} |->
      Bind([h1 \in {[h EXCEPT
                       ![candidate_parent].pertinent_leaf_count =
                          @ + h[candidate_node].pertinent_leaf_count,
                       ![candidate_parent].pertinent_child_count =
                          @ - 1]} |->
      Bind([q1 \in {Append(Tail(q), candidate_parent)} |->
      Bind([t1 \in {[t EXCEPT !.heap = h1]} |->
      Bind([r \in {NonRootTemplates(t1, candidate_node, fo, po)} |->
        IF r.ok THEN [ok |-> TRUE, t |-> r.t, q |-> q1]
        ELSE [ok |-> FALSE, t |-> CleanPseudo(r.t), q |-> q1]])])])])])
    ELSE
      Bind([r \in {RootTemplates(t, candidate_node, fo, po)} |->
        IF r.ok THEN [ok |-> TRUE, t |-> r.t, q |-> Tail(q)]
        ELSE [ok |-> FALSE, t |-> CleanPseudo(r.t),
              q |-> Tail(q)]])])])

\* One iteration of ReduceStep's loop on the node at the front of the queue:
\* [ok, t, q], with ok FALSE when no template matched (CleanPseudo has then
\* run).  `size` is reduction_set.size().
ReduceStepIteration(t, q, size, fo, po) ==
  Bind([candidate_node \in {Head(q)} |->
  Bind([h \in {t.heap} |->
    IF h[candidate_node].pertinent_leaf_count < size
    THEN
      Bind([candidate_parent \in {h[candidate_node].parent_} |->
      Bind([h1 \in {[h EXCEPT
                       ![candidate_parent].pertinent_leaf_count =
                          @ + h[candidate_node].pertinent_leaf_count,
                       ![candidate_parent].pertinent_child_count =
                          @ - 1]} |->
      Bind([q1 \in {IF h1[candidate_parent].pertinent_child_count = 0
                    THEN Append(Tail(q), candidate_parent)
                    ELSE Tail(q)} |->
      Bind([t1 \in {[t EXCEPT !.heap = h1]} |->
      Bind([r \in {NonRootTemplates(t1, candidate_node, fo, po)} |->
        IF r.ok THEN [ok |-> TRUE, t |-> r.t, q |-> q1]
        ELSE [ok |-> FALSE, t |-> CleanPseudo(r.t), q |-> q1]])])])])])
    ELSE
      Bind([r \in {RootTemplates(t, candidate_node, fo, po)} |->
        IF r.ok THEN [ok |-> TRUE, t |-> r.t, q |-> Tail(q)]
        ELSE [ok |-> FALSE, t |-> CleanPseudo(r.t),
              q |-> Tail(q)]])])])

----------------------------------------------------------------------------
(* The calls made on one tree.                                             *)

VARIABLES
  t,              \* the PQTree object: its members and the heap of its nodes
  pc,             \* where the call in progress stands; "idle" between calls
  op,             \* the public method in progress or last completed
  arg,            \* its argument: a set, or a list of sets
  L,              \* ReduceAll: the sets of the list not yet reduced
  toCopy,         \* SafeReduce, SafeReduceAll: the backup copy
  reduction_set,  \* Reduce: its argument
  q,              \* Bubble, ReduceStep: the local queue
  blocked_list,   \* Bubble: the local set of nodes that were left blocked
  ret,            \* the value the last completed public call returned
  pre,            \* the tree as it was when the call in `op` was made
  prev,           \* the call before the one in `op`, when it was a Reduce
                  \* that returned true or a SafeReduce that returned false
  trace,          \* the Reduce invocations of the call in `op` that have
                  \* returned: the set of each and the value it returned
  accepted,       \* the sets reduced with success, and not rolled back, by
                  \* the calls before the one in `op`
  failed          \* whether a Reduce made by Reduce or ReduceAll returned
                  \* false in a call before the one in `op`

vars == <<t, pc, op, arg, L, toCopy, reduction_set, q, blocked_list, ret,
          pre, prev, trace, accepted, failed>>

\* The reduction sets handed to the tree: the empty set, one singleton,
\* every set of two or more elements of the ground set, and two sets that
\* hold an integer the tree was not built over.
ReductionSets ==
  { S \in SUBSET U : Cardinality(S) # 1 } \cup { {1}, {Unknown}, {1, Unknown} }

\* The sets the lists handed to ReduceAll and SafeReduceAll are made of, and
\* the sets handed to Reduce and SafeReduce where lists are handed as well.
ListSets == { {}, {1, 2}, {2, 3}, {1, 3}, {3, 4}, {2, 3, 4} }

\* The lists of reduction sets of length at most n.
RECURSIVE Lists(_)
Lists(n) ==
  IF n = 0 THEN { << >> }
  ELSE Lists(n - 1) \cup
       { Append(l, S) : l \in { k \in Lists(n - 1) : Len(k) = n - 1 },
                        S \in ListSets }

NoCall == [op |-> "none", arg |-> {}, ret |-> TRUE]

\* The sets of the Reduce invocations of `tr` that returned true, in order.
Succeeded(tr) ==
  LET hits == SelectSeq(tr, LAMBDA e : e.value)
  IN [i \in 1..Len(hits) |-> hits[i].set]

InitOver(S) ==
  /\ t = NewTree(S)
  /\ pc = "idle"
  /\ op = "none"
  /\ arg = {}
  /\ L = << >>
  /\ toCopy = << >>
  /\ reduction_set = {}
  /\ q = << >>
  /\ blocked_list = {}
  /\ ret = TRUE
  /\ pre = NewTree(S)
  /\ prev = NoCall
  /\ trace = << >>
  /\ accepted = << >>
  /\ failed = FALSE

\* PQTree::PQTree(set<int>) over the ground set of the model.
Init == InitOver(U)

\* A public call is made on the idle tree.
Enter(o, a) ==
  /\ op' = o
  /\ arg' = a
  /\ pre' = t
  /\ trace' = << >>
  /\ UNCHANGED <<t, q, blocked_list, ret, prev, accepted, failed>>

\* bool PQTree::Reduce(set<int>) is called, on a tree whose log of
\* reductions is shorter than `bound`.
CallReduce(S, bound) ==
  /\ pc = "idle"
  /\ Len(t.reductions_) + 1 <= bound
  /\ Enter("Reduce", S)
  /\ pc' = "Reduce"
  /\ reduction_set' = S
  /\ UNCHANGED <<L, toCopy>>

\* bool PQTree::SafeReduce(set<int>) is called, on a tree whose log of
\* reductions is shorter than `bound`: the backup copy is taken.
CallSafeReduce(S, bound) ==
  /\ pc = "idle"
  /\ Len(t.reductions_) + 1 <= bound
  /\ Enter("SafeReduce", S)
  /\ pc' = "Reduce"
  /\ reduction_set' = S
  /\ toCopy' = CopyFrom(t)
  /\ UNCHANGED L

\* bool PQTree::ReduceAll(list<set<int> >) is called.
CallReduceAll(l) ==
  /\ pc = "idle"
  /\ Len(t.reductions_) + Len(l) <= MaxDeep
  /\ Enter("ReduceAll", l)
  /\ pc' = "ReduceAll"
  /\ L' = l
  /\ UNCHANGED <<reduction_set, toCopy>>

\* bool PQTree::SafeReduceAll(list<set<int> >) is called.
CallSafeReduceAll(l) ==
  /\ pc = "idle"
  /\ Len(t.reductions_) + Len(l) <= MaxDeep
  /\ Enter("SafeReduceAll", l)
  /\ pc' = "ReduceAll"
  /\ L' = l
  /\ toCopy' = CopyFrom(t)
  /\ UNCHANGED reduction_set

\* A restore that leaves the tree as the failed reduction left it.
Restore_Nothing(tree, backup) == tree

\* A restore that leaves leaf_address_ pointing into the tree it replaces.
Restore_StaleLeaves(tree, backup) ==
  Bind([c \in {CopyNode(backup.heap, backup.root_, tree.heap, NULL)} |->
    [tree EXCEPT !.heap = c.h,
                 !.root_ = c.id,
                 !.block_count_ = backup.block_count_,
                 !.blocked_nodes_ = backup.blocked_nodes_,
                 !.off_the_top_ = backup.off_the_top_,
                 !.invalid_ = backup.invalid_]])

\* The restore of SafeReduce and SafeReduceAll after a failure.
Restore(tree, backup) ==
  Bind([c \in {CopyNode(backup.heap, backup.root_, tree.heap, NULL)} |->
    [tree EXCEPT !.heap = c.h,
                 !.root_ = c.id,
                 !.block_count_ = backup.block_count_,
                 !.blocked_nodes_ = backup.blocked_nodes_,
                 !.off_the_top_ = backup.off_the_top_,
                 !.invalid_ = backup.invalid_,
                 !.leaf_address_ = FindLeaves(c.h, c.id)]])

\* The public call in progress returns `value`, with the tree left as
\* `tree`.  A safe call that fails restores the tree from its backup first.
Finish(tree, value) ==
  /\ pc' = "done"
  /\ ret' = value
  /\ t' = Canon(IF ~value /\ op \in {"SafeReduce", "SafeReduceAll"}
                THEN Restore(tree, toCopy) ELSE tree)
  /\ toCopy' = << >>
  /\ L' = << >>
  /\ reduction_set' = {}
  /\ q' = << >>
  /\ blocked_list' = {}
  /\ UNCHANGED <<op, arg, pre, prev, accepted, failed>>

\* The head of ReduceAll's loop: the next set is handed to Reduce, or the
\* list is exhausted and ReduceAll returns true.
ReduceAllNext ==
  /\ pc = "ReduceAll"
  /\ IF L = << >>
     THEN Finish(t, TRUE) /\ UNCHANGED trace
     ELSE /\ pc' = "Reduce"
          /\ reduction_set' = Head(L)
          /\ L' = Tail(L)
          /\ UNCHANGED <<t, op, arg, toCopy, q, blocked_list, ret, pre, prev,
                         trace, accepted, failed>>

\* A return of Reduce after which ReduceAll goes on with the next set
\* whatever the value.
Returns_NeverStops(tree, value) ==
  IF Aborted(tree.heap)
  THEN /\ pc' = "aborted"
       /\ t' = tree
       /\ UNCHANGED <<op, arg, L, toCopy, reduction_set, q, blocked_list,
                      ret, pre, prev, trace, accepted, failed>>
  ELSE /\ trace' = Append(trace, [set |-> reduction_set, value |-> value])
       /\ IF op \in {"ReduceAll", "SafeReduceAll"}
          THEN /\ pc' = "ReduceAll"
               /\ t' = tree
               /\ q' = << >>
               /\ blocked_list' = {}
               /\ UNCHANGED <<op, arg, L, toCopy, reduction_set, ret, pre,
                              prev, accepted, failed>>
          ELSE Finish(tree, value)

\* Reduce returns `value` with the tree left as `tree`: to the loop of
\* ReduceAll, which goes on when the value is true and returns false when
\* it is not, to SafeReduce, or to the caller.  A failed assertion aborts
\* the process instead.
Returns(tree, value) ==
  IF Aborted(tree.heap)
  THEN /\ pc' = "aborted"
       /\ t' = tree
       /\ UNCHANGED <<op, arg, L, toCopy, reduction_set, q, blocked_list,
                      ret, pre, prev, trace, accepted, failed>>
  ELSE /\ trace' = Append(trace, [set |-> reduction_set, value |-> value])
       /\ IF op \in {"ReduceAll", "SafeReduceAll"} /\ value
          THEN /\ pc' = "ReduceAll"
               /\ t' = tree
               /\ q' = << >>
               /\ blocked_list' = {}
               /\ UNCHANGED <<op, arg, L, toCopy, reduction_set, ret, pre,
                              prev, accepted, failed>>
          ELSE Finish(tree, value)

\* The tests of Reduce with the set of an invalid tree recorded.
ReduceEntry_RecordsOnInvalid(tree, set) ==
  IF Cardinality(set) < 2 \/ tree.invalid_ THEN "record" ELSE "bubble"

\* The tests of Reduce in the other order.
ReduceEntry_InvalidFirst(tree, set) ==
  IF tree.invalid_ THEN "fail"
  ELSE IF Cardinality(set) < 2 THEN "record"
  ELSE "bubble"

\* The two tests Reduce starts with, in their order: a set of fewer than
\* two elements is recorded and Reduce returns true; otherwise an invalid
\* tree makes it return false; otherwise Bubble is called.
ReduceEntry(tree, set) ==
  IF Cardinality(set) < 2 THEN "record"
  ELSE IF tree.invalid_ THEN "fail"
  ELSE "bubble"

\* The first lines of Reduce, and of Bubble when it is reached: a set of
\* fewer than two elements is recorded, an invalid tree fails, otherwise
\* Bubble clears its counters and queues the leaves of the set, asserting
\* that leaf_address_ holds each of them.
ReduceEnter ==
  /\ pc = "Reduce"
  /\ LET leaves == LeavesOf(t, reduction_set)
         t1 == [t EXCEPT
                  !.block_count_ = 0,
                  !.blocked_nodes_ = 0,
                  !.off_the_top_ = 0,
                  !.leaf_address_ =
                     [v \in DOMAIN @ \cup reduction_set |->
                        LeafAddress(t, v)]]
         entry == ReduceEntry(t, reduction_set)
     IN IF entry = "record"
        THEN Returns([t EXCEPT !.reductions_ = Append(@, reduction_set)],
                     TRUE)
        ELSE IF entry = "fail"
        THEN Returns(t, FALSE)
        ELSE IF \E i \in 1..Len(leaves) : leaves[i] = NULL
        THEN /\ pc' = "aborted"
             /\ t' = [t1 EXCEPT !.heap = Append(@, AssertFailed)]
             /\ UNCHANGED <<op, arg, L, toCopy, reduction_set, q,
                            blocked_list, ret, pre, prev, trace, accepted,
                            failed>>
        ELSE /\ pc' = "Bubble"
             /\ t' = t1
             /\ q' = leaves
             /\ blocked_list' = {}
             /\ UNCHANGED <<op, arg, L, toCopy, reduction_set, ret, pre,
                            prev, trace, accepted, failed>>

\* One iteration of Bubble's main loop.
BubbleStep ==
  /\ pc = "Bubble"
  /\ BubbleLoopCond(t, q)
  /\ q # << >>
  /\ \E unblocked_siblings \in
          {{ s \in SeqToSet(SiblingsOf(t.heap, Head(q))) :
               t.heap[s].mark_ = "unblocked" }} :
       \E u \in IF unblocked_siblings = {} THEN {NULL}
                 ELSE unblocked_siblings :
         \E r \in {BubbleIteration(t, q, blocked_list, u)} :
           /\ t' = r.t
           /\ q' = r.q
           /\ blocked_list' = r.blocked_list
  /\ UNCHANGED <<pc, op, arg, L, toCopy, reduction_set, ret, pre, prev,
                 trace, accepted, failed>>

\* Bubble finds its queue empty inside the loop and returns false; Reduce
\* marks the tree invalid and returns false.
BubbleFail ==
  /\ pc = "Bubble"
  /\ BubbleLoopCond(t, q)
  /\ q = << >>
  /\ Returns([t EXCEPT !.invalid_ = TRUE], FALSE)

\* Bubble leaves its loop.  When it returns false, so does Reduce, with the
\* tree marked invalid; otherwise ReduceStep starts.
BubbleExit ==
  /\ pc = "Bubble"
  /\ ~BubbleLoopCond(t, q)
  /\ \E order \in Orders(blocked_list) :
       \E b \in {BubbleTail(t, blocked_list, order)} :
         \E leaves \in {LeavesOf(b.t, reduction_set)} :
           IF ~b.ok
           THEN Returns([b.t EXCEPT !.invalid_ = TRUE], FALSE)
           ELSE IF Aborted(b.t.heap)
           THEN Returns(b.t, FALSE)
           ELSE /\ t' = ReduceStepInit(b.t, leaves)
                /\ q' = leaves
                /\ pc' = "ReduceStep"
                /\ blocked_list' = {}
                /\ UNCHANGED <<op, arg, L, toCopy, reduction_set, ret, pre,
                               prev, trace, accepted, failed>>

\* One iteration of ReduceStep's loop.  When no template matches,
\* ReduceStep returns false and Reduce marks the tree invalid.
ReduceStepStep ==
  /\ pc = "ReduceStep"
  /\ q # << >>
  /\ \E fo \in Orders(t.heap[Head(q)].full_children_),
        po \in Orders(t.heap[Head(q)].partial_children_) :
       \E r \in {ReduceStepIteration(t, q, Cardinality(reduction_set),
                                     fo, po)} :
         IF ~r.ok
         THEN Returns([r.t EXCEPT !.invalid_ = TRUE], FALSE)
         ELSE IF Aborted(r.t.heap)
         THEN Returns(r.t, FALSE)
         ELSE IF UsedAfterFree(r.t.heap)
         THEN \E fault \in BOOLEAN :
                IF fault
                THEN /\ pc' = "aborted"
                     /\ t' = r.t
                     /\ UNCHANGED <<op, arg, L, toCopy, reduction_set, q,
                                    blocked_list, ret, pre, prev, trace,
                                    accepted, failed>>
                ELSE /\ t' = [r.t EXCEPT !.heap = Survived(@)]
                     /\ q' = r.q
                     /\ UNCHANGED <<pc, op, arg, L, toCopy, reduction_set,
                                    blocked_list, ret, pre, prev, trace,
                                    accepted, failed>>
         ELSE /\ t' = r.t
              /\ q' = r.q
              /\ UNCHANGED <<pc, op, arg, L, toCopy, reduction_set,
                             blocked_list, ret, pre, prev, trace, accepted, failed>>

\* A successful end of ReduceStep after which Reduce does not record the set.
ReduceDone_NoRecord ==
  /\ pc = "ReduceStep"
  /\ q = << >>
  /\ \E t1 \in {CleanPseudo(t)} :
       IF Aborted(t1.heap) THEN Returns(t1, FALSE)
       ELSE Returns([t1 EXCEPT !.heap = Reset(t1.heap, t1.root_)], TRUE)

\* ReduceStep finds its queue empty: it cleans the pseudonode up and
\* returns true; Reduce resets the tree, records the set and returns true.
ReduceDone ==
  /\ pc = "ReduceStep"
  /\ q = << >>
  /\ \E t1 \in {CleanPseudo(t)} :
       IF Aborted(t1.heap) THEN Returns(t1, FALSE)
       ELSE Returns([t1 EXCEPT !.heap = Reset(t1.heap, t1.root_),
                               !.reductions_ = Append(@, reduction_set)],
                    TRUE)

\* The caller has the value the call returned and is free to make the
\* next call.
CallerContinues ==
  /\ pc = "done"
  /\ pc' = "idle"
  /\ prev' = IF (op = "Reduce" /\ ret) \/ (op = "SafeReduce" /\ ~ret)
             THEN [op |-> op, arg |-> arg, ret |-> ret] ELSE NoCall
  /\ op' = "none"
  /\ arg' = {}
  /\ pre' = t
  /\ ret' = TRUE
  /\ trace' = << >>
  /\ accepted' = IF ~ret /\ op \in {"SafeReduce", "SafeReduceAll"}
                 THEN accepted ELSE accepted \o Succeeded(trace)
  /\ failed' = (failed \/ (~ret /\ op \in {"Reduce", "ReduceAll"}))
  /\ UNCHANGED <<t, L, toCopy, reduction_set, q, blocked_list>>

\* The steps of one Reduce.
Reducing ==
  \/ ReduceEnter
  \/ BubbleStep
  \/ BubbleFail
  \/ BubbleExit
  \/ ReduceStepStep
  \/ ReduceDone

Next ==
  \/ \E S \in ListSets : CallReduce(S, MaxReductions)
  \/ \E S \in ListSets : CallSafeReduce(S, MaxReductions)
  \/ \E l \in Lists(MaxList) : CallReduceAll(l)
  \/ \E l \in Lists(MaxList) : CallSafeReduceAll(l)
  \/ ReduceAllNext
  \/ Reducing
  \/ CallerContinues

Spec == Init /\ [][Next]_vars

\* The tree under Reduce alone.
NextReduce ==
  \/ \E S \in ReductionSets : CallReduce(S, MaxReductions)
  \/ Reducing
  \/ CallerContinues

SpecReduce == Init /\ [][NextReduce]_vars

\* The tree under longer sequences of Reduce, each of a set of two elements
\* of the universe or more.
NextDeep ==
  \/ \E S \in { R \in ReductionSets : R \subseteq U /\ Cardinality(R) >= 2 } :
        CallReduce(S, MaxDeep)
  \/ Reducing
  \/ CallerContinues

SpecDeep == Init /\ [][NextDeep]_vars

\* The tree under the calls that do not roll back: Reduce and ReduceAll.
NextReduceAll ==
  \/ \E S \in ListSets : CallReduce(S, MaxReductions)
  \/ \E l \in Lists(MaxList) : CallReduceAll(l)
  \/ ReduceAllNext
  \/ Reducing
  \/ CallerContinues

SpecReduceAll == Init /\ [][NextReduceAll]_vars

\* The tree under the calls that roll back: SafeReduce and SafeReduceAll.
NextSafe ==
  \/ \E S \in ListSets : CallSafeReduce(S, MaxReductions)
  \/ \E l \in Lists(MaxList) : CallSafeReduceAll(l)
  \/ ReduceAllNext
  \/ Reducing
  \/ CallerContinues

SpecSafe == Init /\ [][NextSafe]_vars

\* pqtest.cc, TestBed: a tree over 1..8 and the sets it is reduced by, in
\* order; the last one is given to Reduce directly, the others to ReduceBy.
TestBedSet == 1..8

TestBed ==
  << {3, 4}, {3, 4, 6}, {3, 4, 5}, {4, 5}, {2, 6}, {1, 2}, {4, 5}, {3, 5} >>

\* pqtest.cc, TestBed2: a tree over 0..5 and the sets it is reduced by.
TestBed2Set == 0..5

TestBed2 ==
  << {1, 4}, {0, 2, 3, 4, 5}, {0, 2, 4, 5}, {2, 5}, {0, 2} >>

\* The sets the test that built `tree` reduces it by.
Script(tree) ==
  IF DOMAIN tree.leaf_address_ = TestBed2Set THEN TestBed2 ELSE TestBed

\* The next Reduce of the test: the calls are made in order, each one after
\* the one before has returned true.
CallScripted ==
  /\ pc = "idle"
  /\ ~failed
  /\ Len(t.reductions_) < Len(Script(t))
  /\ CallReduce(Script(t)[Len(t.reductions_) + 1], Len(Script(t)))

InitTests == \E S \in {TestBedSet, TestBed2Set} : InitOver(S)

NextTests ==
  \/ CallScripted
  \/ Reducing
  \/ CallerContinues

\* The two tests of pqtest.cc.
SpecTests == InitTests /\ [][NextTests]_vars


\* The longest chain of children ConsecutiveFullPartialChildren is given.
MaxLabels == 5

Labels == {"empty", "partial", "full"}

LabelSeqs == UNION { [1..n -> Labels] : n \in 2..MaxLabels }

\* A Q-node, at place 1 of the heap, as ReduceStep finds it when it takes
\* it from the queue: its children, at places 2.., carry the labels their
\* templates left, and full_children_ and partial_children_ hold the
\* children so labelled.  A partial child is a Q-node, the others stand as
\* leaves; what lies below the children is left out.  A pseudonode has no
\* empty child.
LabelledQNode(labels, pseudo) ==
  LET n == Len(labels)
      child(i) ==
        [NewNode(IF labels[i] = "partial" THEN "qnode" ELSE "leaf") EXCEPT
           !.leaf_value = i,
           !.label_ = labels[i],
           !.parent_ = 1,
           !.pseudochild_ = IF pseudo THEN "true" ELSE "false",
           !.mark_ = IF labels[i] = "empty" THEN "unmarked" ELSE "unblocked",
           !.immediate_siblings_ =
              IF i = 1 THEN <<3, NULL>>
              ELSE IF i = n THEN <<n, NULL>>
              ELSE <<i, i + 2>>]
  IN << [NewNode("qnode") EXCEPT
           !.endmost_children_ = <<2, n + 1>>,
           !.pseudonode_ = IF pseudo THEN "true" ELSE "false",
           !.mark_ = "queued",
           !.full_children_ = { i + 1 : i \in { k \in 1..n :
                                                  labels[k] = "full" } },
           !.partial_children_ = { i + 1 : i \in { k \in 1..n :
                                                  labels[k] = "partial" } }]
     >> \o [i \in 1..n |-> child(i)]

\* The Q-nodes ConsecutiveFullPartialChildren is called on, one per chain
\* of labels, ordinary and pseudo.
InitLabels ==
  /\ \E labels \in LabelSeqs :
       \E pseudo \in { b \in BOOLEAN :
                         b => \A i \in 1..Len(labels) :
                                labels[i] # "empty" } :
         t = [NewTree({}) EXCEPT
                !.heap = LabelledQNode(labels, pseudo),
                !.pseudonode_ = IF pseudo THEN 1 ELSE NULL]
  /\ pc = "labels"
  /\ op = "none"
  /\ arg = {}
  /\ L = << >>
  /\ toCopy = << >>
  /\ reduction_set = {}
  /\ q = <<1>>
  /\ blocked_list = {}
  /\ ret = TRUE
  /\ pre = NewTree({})
  /\ prev = NoCall
  /\ trace = << >>
  /\ accepted = << >>
  /\ failed = FALSE

\* The call candidate_node->ConsecutiveFullPartialChildren() of TemplateQ2
\* and TemplateQ3.
CallConsecutive ==
  /\ pc = "labels"
  /\ pc' = "labelled"
  /\ ret' = ConsecutiveFullPartialChildren(t.heap, Head(q))
  /\ UNCHANGED <<t, op, arg, L, toCopy, reduction_set, q, blocked_list,
                 pre, prev, trace, accepted, failed>>

NextLabels == CallConsecutive

\* ConsecutiveFullPartialChildren over the chains of labels.
SpecLabels == InitLabels /\ [][NextLabels]_vars

\* Three trees, over 1..6, 1..5 and 1..4, and the sets each is reduced by,
\* in order.  The sixth set of the first finds a Q-node with a partial child
\* at each end of its full children; the fifth set of the second finds two
\* interior children of a Q-node, one of them a P-node it covers in part,
\* which Bubble puts under a pseudonode; the fourth set of the third finds
\* a Q-node with a partial child between a full and an empty one; the last
\* set of each is refused.
MergeSetA == 1..6

MergeA ==
  << {1, 2}, {5, 6}, {1, 2, 3}, {3, 4}, {4, 5, 6}, {2, 3, 4, 5}, {1, 3} >>

MergeSetB == 1..5

MergeB ==
  << {2, 3}, {1, 2, 3}, {2, 3, 4}, {4, 5}, {3, 4}, {1, 4} >>

MergeSetC == 1..4

MergeC ==
  << {2, 3}, {1, 2, 3}, {2, 3, 4}, {3, 4}, {1, 3} >>

MergeScript(tree) ==
  IF DOMAIN tree.leaf_address_ = MergeSetB THEN MergeB
  ELSE IF DOMAIN tree.leaf_address_ = MergeSetC THEN MergeC
  ELSE MergeA

\* The next Reduce of the sequence, made once the one before has returned
\* true.
CallMerging ==
  /\ pc = "idle"
  /\ ~failed
  /\ Len(t.reductions_) < Len(MergeScript(t))
  /\ CallReduce(MergeScript(t)[Len(t.reductions_) + 1],
                Len(MergeScript(t)))

InitMerge == \E S \in {MergeSetA, MergeSetB, MergeSetC} : InitOver(S)

NextMerge ==
  \/ CallMerging
  \/ Reducing
  \/ CallerContinues

\* Reduce on trees large enough for Q3 to dissolve two partial children
\* and a partial child of a pseudonode.
SpecMerge == InitMerge /\ [][NextMerge]_vars

-----------------------------------------------------------------------------

\* The elements of S stand at consecutive places of the sequence p.
Contiguous(p, S) ==
  LET at == { i \in 1..Len(p) : p[i] \in S }
  IN \A i, j \in at : \A k \in i..j : k \in at

\* Every ordering of the universe.
Permutations == Orders(U)

\* The orderings of the universe in which every set of the list R is
\* contiguous.
Consistent(R) ==
  { p \in Permutations : \A i \in 1..Len(R) : Contiguous(p, R[i]) }

Reverse(s) == [i \in 1..Len(s) |-> s[Len(s) + 1 - i]]

\* The frontiers the tree under n admits: the children of a P-node in any
\* order, the children of a Q-node in their order or its reverse.
RECURSIVE Admitted(_, _)
RECURSIVE Concatenations(_, _)
Concatenations(h, kids) ==
  IF kids = << >> THEN { << >> }
  ELSE Bind([first \in {Admitted(h, Head(kids))} |->
       Bind([rest \in {Concatenations(h, Tail(kids))} |->
         { a \o b : a \in first, b \in rest }])])

Admitted(h, n) ==
  IF h[n].type_ = "leaf" THEN { << h[n].leaf_value >> }
  ELSE Bind([kids \in {Children(h, n)} |->
         IF h[n].type_ = "pnode"
         THEN UNION { Concatenations(h, [i \in 1..Len(kids) |-> kids[o[i]]]) :
                        o \in Orders(1..Len(kids)) }
         ELSE Concatenations(h, kids) \cup Concatenations(h, Reverse(kids))])

AdmittedBy(tree) == Admitted(tree.heap, tree.root_)

\* The tree with the two immediate siblings of every node taken as a set.
SiblingsUnordered(tree) ==
  [tree EXCEPT !.heap =
     [i \in 1..Len(tree.heap) |->
        IF tree.heap[i].alive
        THEN [tree.heap[i] EXCEPT !.immediate_siblings_ = SeqToSet(@)]
        ELSE tree.heap[i]]]

\* The list of sets the call in `op` was given.
ArgList == IF op \in {"ReduceAll", "SafeReduceAll"} THEN arg ELSE <<arg>>

\* At the return of the call in `op`: the sets reduced with success since
\* construction, those of this call included.
AcceptedNow == accepted \o Succeeded(trace)

----------------------------------------------------------------------------
\* C1: after a sequence of Reduce and ReduceAll calls on a freshly built
\* tree that all returned true, every set the calls were given is contiguous
\* in the sequence Frontier returns.
C1_FrontierKeepsEverySetContiguous ==
  (pc = "done" /\ ~failed /\ ret)
    => \A i \in 1..Len(AcceptedNow) :
         Contiguous(Frontier(t), AcceptedNow[i])

\* A ReduceAll of two sets has returned true after an earlier successful
\* call, and the frontier is no longer the initial one.
C1_Witness ==
  /\ pc = "done" /\ ~failed /\ ret
  /\ op = "ReduceAll" /\ Len(arg) = 2
  /\ Len(accepted) = 1
  /\ \A i \in 1..Len(AcceptedNow) : Cardinality(AcceptedNow[i]) >= 2
  /\ \E i, j \in 1..TreeSize : i < j /\ Frontier(t)[i] > Frontier(t)[j]

C3_AdmittedAreTheConsistentOrderings ==
  (pc = "done" /\ ~failed /\ ret)
    => AdmittedBy(t) = Consistent(AcceptedNow)

\* Three sets have been accepted and the tree admits exactly two orderings.
C3_Witness ==
  /\ pc = "done" /\ ~failed /\ ret
  /\ Len(AcceptedNow) = 3
  /\ Cardinality(AdmittedBy(t)) = 2
  /\ Cardinality(Consistent(AcceptedNow)) = 2

C5_FailedSafeReduceRestoresTheTree ==
  /\ (pc = "done" /\ op = "SafeReduce" /\ ~ret /\ ~pre.invalid_)
       => /\ Frontier(t) = Frontier(pre)
          /\ PrintTree(t) = PrintTree(pre)
          /\ GetReductions(t) = GetReductions(pre)
          /\ ~t.invalid_
          /\ AdmittedBy(t) = AdmittedBy(pre)
          /\ SiblingsUnordered(t) = SiblingsUnordered(pre)
  /\ (pc = "done" /\ prev.op = "SafeReduce" /\ ~prev.ret
         /\ (\A i \in 1..Len(ArgList) : ArgList[i] \subseteq U)
         /\ Consistent(accepted \o ArgList) # {})
       => ret

\* A SafeReduce has returned false after ReduceStep changed the tree, on a
\* tree that holds two reductions.
C5_Witness ==
  /\ pc = "done" /\ op = "SafeReduce" /\ ~ret /\ ~pre.invalid_
  /\ Len(pre.reductions_) = 2
  /\ arg \subseteq U
  /\ \E i \in 1..Len(pre.heap) : pre.heap[i].type_ = "qnode"

\* C6: when SafeReduceAll returns false, Frontier, Print and GetReductions
\* return what they returned before the call.
C6_FailedSafeReduceAllRollsBack ==
  (pc = "done" /\ op = "SafeReduceAll" /\ ~ret /\ ~pre.invalid_)
    => /\ Frontier(t) = Frontier(pre)
       /\ PrintTree(t) = PrintTree(pre)
       /\ GetReductions(t) = GetReductions(pre)

\* C7: a Reduce of a set that holds an integer outside the universe does not
\* abort, returns false and records nothing.
C7_UnknownElementFails ==
  (op = "Reduce" /\ ~(arg \subseteq U))
    => /\ pc # "aborted"
       /\ pc = "done" => (~ret /\ t.reductions_ = pre.reductions_)

C9_ReduceIsIdempotent ==
  (pc = "done" /\ op = "Reduce" /\ ~failed
     /\ prev.op = "Reduce" /\ prev.ret /\ prev.arg = arg)
    => /\ ret
       /\ Frontier(t) = Frontier(pre)
       /\ AdmittedBy(t) = AdmittedBy(pre)

\* The second of two equal Reduce calls has returned on a tree that holds a
\* Q-node of which the set is a part.
C9_Witness ==
  /\ pc = "done" /\ op = "Reduce" /\ ~failed /\ ret
  /\ prev.op = "Reduce" /\ prev.ret /\ prev.arg = arg
  /\ Cardinality(arg) = 2
  /\ \E i \in 1..Len(t.heap) :
       t.heap[i].type_ = "qnode" /\ Len(QChildren(t.heap, i)) = 4

\* C10: ReduceAll calls Reduce on the sets of its list in order; every
\* Reduce but the last made returned true; a set is left out only after a
\* Reduce that returned false; ReduceAll returns true exactly when every set
\* of the list was reduced and every Reduce returned true; the log grows by
\* the sets reduced with success and by no other.
C10_ReduceAllStopsAtFirstFailure ==
  (pc = "done" /\ op = "ReduceAll")
    => /\ Len(trace) <= Len(arg)
       /\ \A i \in 1..Len(trace) : trace[i].set = arg[i]
       /\ \A i \in 1..(Len(trace) - 1) : trace[i].value
       /\ Len(trace) < Len(arg)
            => (Len(trace) >= 1 /\ ~trace[Len(trace)].value)
       /\ ret = (Len(trace) = Len(arg)
                   /\ \A i \in 1..Len(trace) : trace[i].value)
       /\ t.reductions_ = pre.reductions_ \o Succeeded(trace)

\* A ReduceAll of three sets has returned after its second Reduce returned
\* false on a tree that was not poisoned: the third set was left out.
C10_Witness ==
  /\ pc = "done" /\ op = "ReduceAll" /\ Len(arg) = 3 /\ ~pre.invalid_
  /\ Len(trace) = 2 /\ trace[1].value /\ ~trace[2].value
  /\ Cardinality(arg[3]) >= 2

-----------------------------------------------------------------------------
\* C11: when a call of Reduce or ReduceAll returns, GetReductions is exactly
\* the sequence of the sets for which Reduce has returned true since
\* construction, in the order of the calls, the sets of fewer than two
\* elements included; a Reduce that returned false has added nothing.
C11_GetReductionsIsTheAcceptedSets ==
  pc = "done" => GetReductions(t) = AcceptedNow

\* A ReduceAll has returned false at a later set after its first set was
\* accepted, and a set of fewer than two elements is among the accepted.
C11_Witness ==
  /\ pc = "done"
  /\ op = "ReduceAll"
  /\ ~ret
  /\ Len(Succeeded(trace)) >= 1
  /\ Len(trace) > Len(Succeeded(trace))
  /\ \E i \in 1..Len(AcceptedNow) : Cardinality(AcceptedNow[i]) < 2

-----------------------------------------------------------------------------
\* C12: the deep copy of a tree reached by successful reductions (the copy
\* SafeReduce and SafeReduceAll take with the copy constructor before they
\* reduce) has the Frontier and the Print of the tree it was copied from.
C12_CopyKeepsFrontierAndPrint ==
  toCopy # << >> =>
    /\ Frontier(toCopy) = Frontier(pre)
    /\ PrintTree(toCopy) = PrintTree(pre)

\* A copy has been taken of a tree that holds a Q-node and a P-node below
\* the root, and whose frontier is not the one of construction.
C12_Witness ==
  /\ toCopy # << >>
  /\ Frontier(pre) # Frontier(NewTree(U))
  /\ \E n \in 1..Len(pre.heap) : pre.heap[n].type_ = "qnode"
  /\ \E n \in 1..Len(pre.heap) :
       pre.heap[n].type_ = "pnode" /\ n # pre.root_

-----------------------------------------------------------------------------
\* C13: after construction, after every successful reduction and after
\* every failed SafeReduce or SafeReduceAll, Frontier returns a permutation
\* of the elements the tree was built over: each of them exactly once.
C13_FrontierIsAPermutation ==
  pc \in {"idle", "done"} => Frontier(t) \in Permutations

\* A safe call has returned false on a tree that earlier reductions had
\* rearranged.
C13_Witness ==
  /\ pc = "done"
  /\ op \in {"SafeReduce", "SafeReduceAll"}
  /\ ~ret
  /\ Len(t.reductions_) >= 2
  /\ Frontier(t) # Frontier(NewTree(U))

-----------------------------------------------------------------------------
\* C14: GetContained is the union of the sets GetReductions returns, and
\* ReducedFrontier is the subsequence of Frontier made of the values that
\* are in GetContained: it holds those values and no other, each as many
\* times as Frontier does and in the order Frontier has them.
C14_ReducedFrontierIsFrontierWithinContained ==
  pc \in {"idle", "done"} =>
    LET F == Frontier(t)
        R == ReducedFrontier(t)
        G == GetReductions(t)
        at == { i \in 1..Len(F) : F[i] \in GetContained(t) }
    IN /\ GetContained(t) = UNION { G[i] : i \in 1..Len(G) }
       /\ Len(R) = Cardinality(at)
       /\ \A i \in at : R[Cardinality({ j \in at : j <= i })] = F[i]

\* After successful reductions the contained values are some but not all
\* of the elements, and they are not the first ones of the frontier.
C14_Witness ==
  /\ pc = "done"
  /\ ret
  /\ Len(ReducedFrontier(t)) \in 2..(TreeSize - 1)
  /\ Frontier(t)[1] \notin GetContained(t)
  /\ Len(GetReductions(t)) >= 2
  /\ ReducedFrontier(t)[1] # 1

-----------------------------------------------------------------------------
\* C15: in the test over 1..8, the Reduce calls by {3,4}, {3,4,6}, {3,4,5},
\* {4,5}, {2,6}, {1,2} and {4,5}, made in this order on the fresh tree,
\* return true each, and the Reduce by {3,5} that follows returns false;
\* none of the calls aborts.
C15_TestBedAcceptsSevenAndRejectsTheEighth ==
  DOMAIN t.leaf_address_ = TestBedSet =>
    /\ pc # "aborted"
    /\ pc = "done" =>
         /\ arg = TestBed[Len(pre.reductions_) + 1]
         /\ GetReductions(pre) = SubSeq(TestBed, 1, Len(pre.reductions_))
         /\ ret <=> Len(pre.reductions_) < 7

\* The eighth call, by {3,5}, has returned false after the seven before it
\* returned true.
C15_Witness ==
  /\ DOMAIN t.leaf_address_ = TestBedSet
  /\ pc = "done"
  /\ arg = {3, 5}
  /\ ~ret
  /\ GetReductions(t) = SubSeq(TestBed, 1, 7)

-----------------------------------------------------------------------------
\* C16: in the test over 0..5, the Reduce calls by {1,4}, {0,2,3,4,5},
\* {0,2,4,5}, {2,5} and {0,2}, made in this order on the fresh tree, return
\* true each without aborting, and the frontier after the last one has 1
\* next to 4 and the elements 0, 2, 4, 5 contiguous.
C16_TestBed2SucceedsWithItsFrontier ==
  DOMAIN t.leaf_address_ = TestBed2Set =>
    /\ pc # "aborted"
    /\ pc = "done" => ret
    /\ (pc = "done" /\ Len(t.reductions_) = Len(TestBed2)) =>
         /\ \E i \in 1..(Len(Frontier(t)) - 1) :
              {Frontier(t)[i], Frontier(t)[i + 1]} = {1, 4}
         /\ Contiguous(Frontier(t), {0, 2, 4, 5})

-----------------------------------------------------------------------------
\* C17: no step of a Reduce (Bubble, ReduceStep, a template on a node or on
\* the pertinent root) dereferences a parent pointer that refers to a deleted
\* node: no member of a deleted node is read or written.
C17_NoDestroyedParentIsDereferenced ==
  ~UsedAfterFree(t.heap)

-----------------------------------------------------------------------------
\* The nodes of `tree` reachable from its root.
Reachable(tree) == SeqToSet(Preorder(tree.heap, tree.root_))

\* `tree` has no pseudonode: the member is null and no node reachable from
\* the root carries the flag.
NoPseudoNode(tree) ==
  /\ tree.pseudonode_ = NULL
  /\ \A n \in Reachable(tree) : tree.heap[n].pseudonode_ # "true"

\* Each endmost child of the pseudonode of `before` and the neighbour kept
\* for its side are immediate siblings of each other in `after`.  A node is
\* told in both trees by the leaves below it.
Relinked(before, after) ==
  \A i \in 1..2 :
    LET pn == before.pseudonode_
        e == FindFrontier(before.heap, before.heap[pn].endmost_children_[i])
        nb == FindFrontier(before.heap, before.heap[pn].pseudo_neighbors_[i])
    IN \E a, b \in Reachable(after) :
         /\ FindFrontier(after.heap, a) = e
         /\ FindFrontier(after.heap, b) = nb
         /\ a \in SeqToSet(SiblingsOf(after.heap, b))
         /\ b \in SeqToSet(SiblingsOf(after.heap, a))

\* C18: when Reduce returns, true or false, the tree has no pseudonode, and
\* where a pseudonode was torn down, each node Bubble had detached from an
\* end of the blocked run is again the immediate sibling of the child that
\* was endmost in the pseudonode on that side when it was torn down.
C18_PseudoNodeIsTornDownAndRelinked ==
  /\ [](pc \in {"idle", "done"} => NoPseudoNode(t))
  /\ [][(t.pseudonode_ # NULL /\ pc' \in {"done", "ReduceAll"})
          => Relinked(t, t')]_vars

\* Reduce has returned true for two leaves that were interior children of a
\* Q-node with four children: Bubble left both blocked and made a pseudonode.
C18_Witness ==
  /\ pc = "done"
  /\ op = "Reduce"
  /\ ret
  /\ pre.heap[pre.root_].type_ = "qnode"
  /\ Len(Children(pre.heap, pre.root_)) = TreeSize
  /\ arg = {Frontier(pre)[2], Frontier(pre)[3]}

-----------------------------------------------------------------------------
\* The non-null entries of immediate_siblings_ of node n.
SiblingSet(h, n) ==
  { h[n].immediate_siblings_[i] : i \in 1..2 } \ {NULL}

\* The Q-node n of heap h is well formed: two distinct endmost children;
\* the walk along the sibling links from the first one visits no child
\* twice and ends at the second one; the nodes next to a child in the walk
\* are its immediate siblings and it has no other, so that an endmost child
\* has one and every other child two.
WellFormedQ(h, n) ==
  LET e == h[n].endmost_children_
      w == QChildren(h, n)
  IN /\ e[1] # NULL
     /\ e[2] # NULL
     /\ e[1] # e[2]
     /\ \A i \in 1..Len(w) : w[i] # NULL
     /\ \A i, j \in 1..Len(w) : w[i] = w[j] => i = j
     /\ w[1] = e[1]
     /\ w[Len(w)] = e[2]
     /\ \A i \in 1..Len(w) :
          SiblingSet(h, w[i]) =
            { w[j] : j \in { i - 1, i + 1 } \cap (1..Len(w)) }

\* C19: after a Reduce that returned true, every Q-node reachable from the
\* root has two distinct endmost children, each with exactly one immediate
\* sibling, every other child has exactly two, and the walk along the sibling
\* links from the first endmost child visits each child once and ends at the
\* second.
C19_QNodesAreWellFormed ==
  (pc = "done" /\ ret) =>
    \A n \in Reachable(t) :
      t.heap[n].type_ = "qnode" => WellFormedQ(t.heap, n)

\* Reduce has returned true and the tree holds a Q-node with four children
\* or a Q-node below the root.
C19_Witness ==
  /\ pc = "done"
  /\ ret
  /\ \E n \in Reachable(t) :
       /\ t.heap[n].type_ = "qnode"
       /\ Len(QChildren(t.heap, n)) >= 4 \/ n # t.root_

-----------------------------------------------------------------------------
\* Node n of heap h is as PQNode::Reset leaves a node.
IsReset(h, n) ==
  /\ h[n].label_ = "empty"
  /\ h[n].mark_ = "unmarked"
  /\ h[n].pertinent_child_count = 0
  /\ h[n].pertinent_leaf_count = 0
  /\ h[n].full_children_ = {}
  /\ h[n].partial_children_ = {}
  /\ h[n].pseudonode_ = "false"
  /\ h[n].pseudochild_ = "false"

-----------------------------------------------------------------------------
\* leaf_address_ of `tree` has one entry per element of S, and the entry of
\* v is a leaf reachable from the root that holds v.
LeafIndexOver(tree, S) ==
  /\ DOMAIN tree.leaf_address_ = S
  /\ \A v \in S :
       /\ tree.leaf_address_[v] \in Reachable(tree)
       /\ tree.heap[tree.leaf_address_[v]].type_ = "leaf"
       /\ tree.heap[tree.leaf_address_[v]].leaf_value = v

\* C22: after construction, after every Reduce that returned true and after
\* every SafeReduce and SafeReduceAll, whatever it returned, leaf_address_
\* has exactly one entry per element of the ground set, and the entry of v
\* is a leaf reachable from the root that holds v.
C22_LeafIndexIsExact ==
  (pc \in {"idle", "done"} /\ ~failed
     /\ (ret \/ op \in {"SafeReduce", "SafeReduceAll"}))
    => LeafIndexOver(t, U)

\* A safe call has returned false, and the restored tree is one that earlier
\* reductions had rearranged.
C22_Witness ==
  /\ pc = "done"
  /\ op \in {"SafeReduce", "SafeReduceAll"}
  /\ ~ret
  /\ Len(trace) >= 2
  /\ Frontier(t) # Frontier(NewTree(U))
  /\ \E n \in Reachable(t) : t.heap[n].type_ = "qnode"

-----------------------------------------------------------------------------
\* The parent pointers the tree keeps current: every child of a P-node,
\* the two endmost children of a Q-node, and the root.
ParentsCurrent(tree) ==
  /\ tree.heap[tree.root_].parent_ = NULL
  /\ \A n \in Reachable(tree) :
       /\ tree.heap[n].type_ = "pnode" =>
            \A i \in 1..Len(tree.heap[n].circular_link_) :
              tree.heap[tree.heap[n].circular_link_[i]].parent_ = n
       /\ tree.heap[n].type_ = "qnode" =>
            \A k \in 1..2 :
              /\ tree.heap[n].endmost_children_[k] \in DOMAIN tree.heap
              /\ tree.heap[tree.heap[n].endmost_children_[k]].parent_ = n

\* C23: after every Reduce that returned true, the parent pointer of every
\* child of a P-node is that P-node, the parent pointer of each of the two
\* endmost children of a Q-node is that Q-node, and the parent pointer of
\* the root is null.
C23_ParentPointersAreCurrent ==
  (pc = "done" /\ ret) => ParentsCurrent(t)

\* A returned reduction on a tree that holds a Q-node whose interior child
\* carries a parent pointer that is not that Q-node.
C23_Witness ==
  /\ pc = "done"
  /\ ret
  /\ Cardinality(arg) >= 2
  /\ \E n \in Reachable(t) :
       /\ t.heap[n].type_ = "qnode"
       /\ \E i \in 2..(Len(QChildren(t.heap, n)) - 1) :
            t.heap[QChildren(t.heap, n)[i]].parent_ # n

-----------------------------------------------------------------------------
\* The tree on which ReduceStep tries the templates of the head of its
\* queue: below the pertinent root the parent's counts have been updated.
TemplatesInput(tree, queue, size) ==
  LET x == Head(queue)
      p == tree.heap[x].parent_
  IN IF tree.heap[x].pertinent_leaf_count < size
     THEN [tree EXCEPT
             !.heap[p].pertinent_leaf_count =
                @ + tree.heap[x].pertinent_leaf_count,
             !.heap[p].pertinent_child_count = @ - 1]
     ELSE tree

\* What each template of the list of `x` returns on `tree`, in the order
\* the claim gives.
TemplateResults(tree, x, size, fo, po) ==
  IF tree.heap[x].pertinent_leaf_count < size
  THEN << TemplateL1(tree, x), TemplateP1(tree, x, FALSE),
          TemplateP3(tree, x, fo), TemplateP5(tree, x, fo, po),
          TemplateQ1(tree, x), TemplateQ2(tree, x, po) >>
  ELSE << TemplateL1(tree, x), TemplateP1(tree, x, TRUE),
          TemplateP2(tree, x, fo), TemplateP4(tree, x, fo, po),
          TemplateP6(tree, x, fo, po), TemplateQ1(tree, x),
          TemplateQ2(tree, x, po), TemplateQ3(tree, x, po) >>

\* The templates of the list that match.
Matching(results) == { i \in DOMAIN results : results[i].ok }

FirstMatching(results) ==
  CHOOSE i \in Matching(results) : \A j \in Matching(results) : i <= j

\* Bubble, at the point it has reached, returns false.
BubbleFails ==
  /\ pc = "Bubble"
  /\ \/ BubbleLoopCond(t, q) /\ q = << >>
     \/ /\ ~BubbleLoopCond(t, q)
        /\ \E order \in Orders(blocked_list) :
             ~BubbleTail(t, blocked_list, order).ok

\* No template of the list of the head of the queue matches.
NoTemplateMatches ==
  /\ pc = "ReduceStep"
  /\ q # << >>
  /\ \E fo \in Orders(t.heap[Head(q)].full_children_),
        po \in Orders(t.heap[Head(q)].partial_children_) :
       Matching(TemplateResults(
                  TemplatesInput(t, q, Cardinality(reduction_set)),
                  Head(q), Cardinality(reduction_set), fo, po)) = {}

\* C24: an iteration of ReduceStep that goes on leaves the tree as the
\* first template that matches, in the order L1, P1, P3, P5, Q1, Q2 below
\* the pertinent root and L1, P1, P2, P4, P6, Q1, Q2, Q3 at it, left it;
\* and a Reduce that got as far as Bubble returns false exactly when Bubble
\* failed or a processed node matched none of its templates.
C24_FirstMatchingTemplateIsApplied ==
  [][
     /\ (pc = "ReduceStep" /\ q # << >> /\ pc' = "ReduceStep") =>
          (\E fo \in Orders(t.heap[Head(q)].full_children_),
              po \in Orders(t.heap[Head(q)].partial_children_) :
             LET size == Cardinality(reduction_set)
                 results == TemplateResults(TemplatesInput(t, q, size),
                                            Head(q), size, fo, po)
             IN /\ Matching(results) # {}
                /\ t' = [results[FirstMatching(results)].t
                          EXCEPT !.heap = Survived(@)])
     /\ (pc \in {"Bubble", "ReduceStep"} /\ pc' = "done"
           /\ ~Aborted(t'.heap)) =>
          (~ret' <=> (BubbleFails \/ NoTemplateMatches))
    ]_vars

\* ReduceStep is about to process a Q-node below the pertinent root whose
\* children are all full, which both Q1 and Q2 match.
C24_Witness ==
  /\ pc = "ReduceStep"
  /\ q # << >>
  /\ t.heap[Head(q)].pertinent_leaf_count < Cardinality(reduction_set)
  /\ t.heap[Head(q)].type_ = "qnode"
  /\ \E fo \in Orders(t.heap[Head(q)].full_children_),
        po \in Orders(t.heap[Head(q)].partial_children_) :
       Cardinality(Matching(TemplateResults(
                     TemplatesInput(t, q, Cardinality(reduction_set)),
                     Head(q), Cardinality(reduction_set), fo, po))) >= 2

-----------------------------------------------------------------------------
\* The children of `n` that Bubble marked and no template has labelled.
UnprocessedChildren(h, n) ==
  { c \in SeqToSet(Children(h, n)) \ {NULL} :
      h[c].mark_ # "unmarked" /\ h[c].label_ = "empty" }

\* C25: within one Reduce, templates are applied from the leaves to the
\* root.  Whenever ReduceStep is about to take a node from its queue, the
\* queue holds distinct nodes that no template has labelled yet, the node
\* at its head has no marked child that is still unlabelled, and a node
\* that gets the root templates has a pertinent leaf count of exactly |S|,
\* no child with that count, and nothing queued behind it.
C25_TemplatesRunLeafToRoot ==
  (pc = "ReduceStep" /\ q # << >>) =>
    LET x == Head(q)
        size == Cardinality(reduction_set)
    IN /\ \A i, j \in 1..Len(q) : q[i] = q[j] => i = j
       /\ \A i \in 1..Len(q) : t.heap[q[i]].label_ = "empty"
       /\ UnprocessedChildren(t.heap, x) = {}
       /\ t.heap[x].pertinent_child_count = 0
       /\ t.heap[x].pertinent_leaf_count >= size =>
            /\ t.heap[x].pertinent_leaf_count = size
            /\ Tail(q) = << >>
            /\ \A c \in SeqToSet(Children(t.heap, x)) \ {NULL} :
                 t.heap[c].pertinent_leaf_count < size

\* ReduceStep is about to apply the root templates to a node one of whose
\* children is an interior node that a template has already labelled.
C25_Witness ==
  /\ pc = "ReduceStep"
  /\ q # << >>
  /\ t.heap[Head(q)].pertinent_leaf_count = Cardinality(reduction_set)
  /\ \E c \in SeqToSet(Children(t.heap, Head(q))) \ {NULL} :
       /\ t.heap[c].type_ # "leaf"
       /\ t.heap[c].label_ # "empty"

-----------------------------------------------------------------------------
\* The templates ReduceStep calls on the head of its queue: those of the
\* list up to and including the first that matches.
Called(results) ==
  { i \in DOMAIN results : \A j \in 1..(i - 1) : ~results[j].ok }

\* C26: a template that returns false has changed nothing.  Whenever
\* ReduceStep is about to process a node, every template it calls on that
\* node that returns false hands back the tree it was given.
C26_FailedTemplateChangesNothing ==
  (pc = "ReduceStep" /\ q # << >>) =>
    \A fo \in Orders(t.heap[Head(q)].full_children_),
       po \in Orders(t.heap[Head(q)].partial_children_) :
      LET size == Cardinality(reduction_set)
          input == TemplatesInput(t, q, size)
          results == TemplateResults(input, Head(q), size, fo, po)
      IN \A i \in Called(results) :
           ~results[i].ok => results[i].t = input

\* ReduceStep is about to apply the root templates to a P-node with two
\* partial children: L1, P1, P2 and P4 are called and return false, and P6
\* matches.
C26_Witness ==
  /\ pc = "ReduceStep"
  /\ q # << >>
  /\ t.heap[Head(q)].type_ = "pnode"
  /\ Cardinality(t.heap[Head(q)].partial_children_) = 2
  /\ \E fo \in Orders(t.heap[Head(q)].full_children_),
        po \in Orders(t.heap[Head(q)].partial_children_) :
       LET size == Cardinality(reduction_set)
           results == TemplateResults(TemplatesInput(t, q, size),
                                      Head(q), size, fo, po)
       IN /\ Len(results) = 8
          /\ Called(results) = 1..5
          /\ results[5].ok

-----------------------------------------------------------------------------
\* The labels of the children of Q-node `n`, read from one end to the other.
ChildLabels(h, n) ==
  [i \in 1..Len(Children(h, n)) |-> h[Children(h, n)[i]].label_]

\* `labels` matches empty* partial? full* partial? empty*: the labels that
\* are not empty form one block, inside which only the first and the last
\* may be partial.
MatchesPattern(labels) ==
  \E i \in 1..(Len(labels) + 1), j \in 0..Len(labels) :
    /\ i <= j + 1
    /\ \A k \in 1..Len(labels) :
         IF k < i \/ k > j THEN labels[k] = "empty"
         ELSE IF k = i \/ k = j THEN labels[k] \in {"partial", "full"}
         ELSE labels[k] = "full"

\* C27: on a Q-node, ordinary or pseudo, ConsecutiveFullPartialChildren
\* returns true exactly when the labels of the children, read from one end
\* to the other, match empty* partial? full* partial? empty*.  This is
\* stated of the value the call returned, and of the Q-node ReduceStep is
\* about to try its templates on.
C27_ConsecutiveMeansThePattern ==
  /\ pc = "labelled" =>
       (ret <=> MatchesPattern(ChildLabels(t.heap, Head(q))))
  /\ (pc = "ReduceStep" /\ q # << >> /\ t.heap[Head(q)].type_ = "qnode") =>
       (ConsecutiveFullPartialChildren(t.heap, Head(q))
          <=> MatchesPattern(ChildLabels(t.heap, Head(q))))

\* The call has returned false on a chain with two partial children and a
\* full child that is not between them.
C27_Witness ==
  /\ pc = "labelled"
  /\ ~ret
  /\ Cardinality(t.heap[1].partial_children_) = 2
  /\ Cardinality(t.heap[1].full_children_) >= 1
  /\ \E i \in 1..(Len(ChildLabels(t.heap, 1)) - 1) :
       /\ ChildLabels(t.heap, 1)[i] = "partial"
       /\ ChildLabels(t.heap, 1)[i + 1] = "partial"

-----------------------------------------------------------------------------
\* The children of partial Q-node w[k], in the order in which they must
\* stand in the chain w of its parent once the node is dissolved: the full
\* end next to the neighbour that is full or partial, the empty end next
\* to the neighbour that is empty, and where one neighbour is missing, the
\* end the other neighbour does not take at the end of the chain.
Oriented(h, w, k) ==
  LET cy == Children(h, w[k])
      fullLeft ==
        IF k > 1 /\ h[w[k - 1]].label_ # "empty" THEN TRUE
        ELSE IF k < Len(w) /\ h[w[k + 1]].label_ # "empty" THEN FALSE
        ELSE k = 1
  IN IF fullLeft = (h[cy[1]].label_ = "full") THEN cy ELSE Reverse(cy)

\* The chain of `x` with every partial child replaced by its own children.
Spliced(h, x) ==
  LET w == Children(h, x)
      S[k \in 0..Len(w)] ==
        IF k = 0 THEN << >>
        ELSE S[k - 1] \o (IF h[w[k]].label_ = "partial"
                          THEN Oriented(h, w, k) ELSE <<w[k]>>)
  IN S[Len(w)]

\* C28: when Q2 or Q3 dissolves the partial children of a Q-node, the
\* chain of the Q-node afterwards is its former chain with each partial
\* child replaced, in place, by that child's own children in their own
\* order, full end towards the full or partial neighbour and empty end
\* towards the empty neighbour; the two ends of the chain have the Q-node
\* as parent; and the partial children are gone.
C28_MergeSplicesTheChildrenInPlace ==
  [][(/\ pc = "ReduceStep"
      /\ q # << >>
      /\ pc' = "ReduceStep"
      /\ t.heap[Head(q)].type_ = "qnode"
      /\ t.heap[Head(q)].partial_children_ # {}) =>
       LET x == Head(q)
           expected == Spliced(t.heap, x)
           after == Children(t'.heap, x)
       IN /\ after \in {expected, Reverse(expected)}
          /\ t'.heap[x].endmost_children_ \in
               { <<after[1], after[Len(after)]>>,
                 <<after[Len(after)], after[1]>> }
          /\ t'.heap[after[1]].parent_ = x
          /\ t'.heap[after[Len(after)]].parent_ = x
          /\ \A y \in t.heap[x].partial_children_ : ~t'.heap[y].alive
    ]_vars

\* ReduceStep is about to dissolve a partial child that stands between two
\* other children of a Q-node.
C28_Witness ==
  /\ pc = "ReduceStep"
  /\ q # << >>
  /\ t.heap[Head(q)].type_ = "qnode"
  /\ ~NoTemplateMatches
  /\ \E k \in 2..(Len(Children(t.heap, Head(q))) - 1) :
       t.heap[Children(t.heap, Head(q))[k]].label_ = "partial"

-----------------------------------------------------------------------------
\* C29: every call on a tree that earlier successful reductions have built
\* ends by returning true or false.  No call stops anywhere but at its
\* return; Bubble's queue holds, once each, leaves of the set and
\* nodes whose mark went from unmarked to queued when they were put there;
\* every iteration of ReduceStep's loop takes an unlabelled node from the
\* queue; and no walk along a chain of siblings comes back to a node it has
\* passed.
C29_EveryCallReturns ==
  /\ pc # "aborted"
  /\ pc = "Bubble" =>
       /\ \A i \in 1..Len(q) :
            \/ t.heap[q[i]].mark_ = "queued"
            \/ t.heap[q[i]].type_ = "leaf" /\ t.heap[q[i]].mark_ = "unmarked"
       /\ \A i, j \in 1..Len(q) : q[i] = q[j] => i = j
  /\ pc = "ReduceStep" =>
       /\ \A i \in 1..Len(q) : t.heap[q[i]].label_ = "empty"
       /\ \A i, j \in 1..Len(q) : q[i] = q[j] => i = j
  /\ pc \in {"idle", "done"} =>
       \A n \in Reachable(t) :
         t.heap[n].type_ = "qnode" =>
           \A i \in 1..Len(QChildren(t.heap, n)) :
             QChildren(t.heap, n)[i] # NULL

-----------------------------------------------------------------------------
\* The nodes whose mark is blocked.
BlockedNow(h) == { n \in DOMAIN h : h[n].alive /\ h[n].mark_ = "blocked" }

\* C30: at the end of every iteration of Bubble's main loop, blocked_nodes_
\* is the number of nodes whose mark is blocked, and so is never negative.
C30_BlockedNodesCountsTheBlockedMarks ==
  pc = "Bubble" =>
    /\ t.blocked_nodes_ = Cardinality(BlockedNow(t.heap))
    /\ t.blocked_nodes_ >= 0

============================================================================
